---- MODULE Spec2Model ----
(***************************************************************************)
(* A model of package-info-cache: the PackageInfoCache table, the          *)
(* PackageInfo and NodeModulesList objects it builds from a directory      *)
(* tree, and the dependency resolution pass.                               *)
(*                                                                         *)
(* Objects live in a heap (a sequence; an object's identity is its index), *)
(* so that "the same object" and "an equal object" stay different things.  *)
(* A path is a sequence of segments; <<>> is the filesystem root "/".  A   *)
(* relative path starts with the segment ".".  A package name is the       *)
(* sequence of its '/'-separated parts: <<"a">> is "a", <<"@s","y">> is    *)
(* "@s/y".                                                                 *)
(***************************************************************************)
EXTENDS Integers, Sequences, FiniteSets, TLC

VARIABLES fs, entries, heap, theNullInstance, rootPackage, projectRootDir,
          lastOp, nOps, completed, packageList

vars == <<fs, entries, heap, theNullInstance, rootPackage, projectRootDir,
          lastOp, nOps, completed, packageList>>

(***************************************************************************)
(* Bounds of the model.                                                    *)
(***************************************************************************)
\* number of public calls made on one cache instance
MaxOps == 3
\* depth of nested readPackage/readNodeModulesList calls the stack allows
MaxDepth == 8
\* number of calls made on the NodeModulesList objects of ListSpec
MaxListOps == 3
\* number of calls made on the array of UtilSpec
MaxUtilOps == 2
\* length of the array UtilSpec starts from
MaxLen == 2

(***************************************************************************)
(* References.                                                             *)
(***************************************************************************)
\* the JavaScript value undefined, where an object reference is expected
UNDEF == 0
\* the reference to NodeModulesList.nullInstance
NULLINSTANCE == -1

\* null, as returned by getRealDirectoryPath / getRealFilePath
NoPath == <<"<null>">>
\* path.parse(p).root of a relative path: the empty string
EmptyStr == <<"">>

ERROR_PACKAGE_DIR_MISSING == "packageDirectoryMissing"
ERROR_PACKAGE_JSON_MISSING == "packageJsonMissing"
ERROR_PACKAGE_JSON_PARSE == "packageJsonParse"
ERROR_EMBER_ADDON_MAIN_MISSING == "emberAddonMainMissing"
ERROR_DEPENDENCIES_MISSING == "dependenciesMissing"
ERROR_DEVDEPENDENCIES_MISSING == "devDependenciesMissing"
ERROR_NODEMODULES_ENTRY_MISSING == "modulesEntryMissing"
\* the ad-hoc error type #readPackage uses for a 'paths' entry that is no addon
ERROR_PATHS_ENTRY_NOT_ADDON == "The addon's 'paths' entry is not an addon!"

PACKAGE_JSON == "package.json"
NODE_MODULES == "node_modules"

(***************************************************************************)
(* node:path on POSIX.                                                     *)
(***************************************************************************)
IsAbsolute(p) == p = <<>> \/ p[1] # "."

Front(s) == SubSeq(s, 1, Len(s) - 1)

RECURSIVE NormFrom(_, _)
NormFrom(acc, rest) ==
  IF rest = <<>> THEN acc
  ELSE LET s == Head(rest) IN
       IF s = ".."
       THEN NormFrom(IF acc = <<>> \/ acc = <<".">> THEN acc ELSE Front(acc),
                     Tail(rest))
       ELSE IF s = "." /\ acc # <<>> THEN NormFrom(acc, Tail(rest))
       ELSE NormFrom(Append(acc, s), Tail(rest))

\* path.normalize
Normalize(p) == NormFrom(<<>>, p)

\* path.join(a, rel)
Join(a, rel) == Normalize(a \o rel)

\* path.dirname: "/" and "." are their own parents
Dirname(p) == IF p = <<>> \/ p = <<".">> THEN p ELSE Front(p)

\* path.basename
Basename(p) == IF p = <<>> THEN "" ELSE p[Len(p)]

\* path.parse(p).root
ParseRoot(p) == IF IsAbsolute(p) THEN <<>> ELSE EmptyStr

(***************************************************************************)
(* Names.  JavaScript tests the first character of a name; the model       *)
(* lists the names of each class.                                          *)
(***************************************************************************)
\* file names s for which s.startsWith('@')
AtNames == {"@s", "@t"}
\* file names s for which s.startsWith('.') || s.startsWith('_')
HiddenNames == {".bin", "_old"}

StartsWithAt(s) == s \in AtNames
StartsWithDotOrUnderscore(s) == s \in HiddenNames

(***************************************************************************)
(* package.json contents.                                                  *)
(***************************************************************************)
\* A parsed package.json object.  edition: ember.edition is 'classic' or
\* 'octane'; keywords: the keywords array as a set; addonBlock: the
\* 'ember-addon' property is absent ("none"), an object, or something else;
\* hasPaths/paths: 'ember-addon'.paths is a string array; projectRoot:
\* 'ember-addon'.projectRoot (<<>> when absent); deps and devDeps:
\* Object.keys of the two dependency maps; main and addonMain: the 'main' and
\* 'ember-addon'.main properties ("" when absent).
Desc(name, edition, keywords, deps, devDeps) ==
  [name |-> name, edition |-> edition, keywords |-> keywords,
   addonBlock |-> "none", hasPaths |-> FALSE, paths |-> <<>>,
   projectRoot |-> <<>>, deps |-> deps, devDeps |-> devDeps, main |-> "",
   addonMain |-> ""]

\* { name: 'invalid package.json' }
InvalidPackageJson == Desc("invalid package.json", FALSE, {}, <<>>, <<>>)

\* the contents of a package.json file: an object, text that does not parse
\* (readJsonSync with throws:false gives null), or a truthy value that is
\* not an object (a number, a string, true)
JsonObject(d) == [kind |-> "object", desc |-> d]
JsonUnparseable == [kind |-> "unparseable", desc |-> InvalidPackageJson]
JsonPrimitive == [kind |-> "primitive", desc |-> InvalidPackageJson]

EMBER_CLI == <<"ember-cli">>

Kinds == {"plain", "ember", "addon", "engine", "app"}

\* a package.json that PackageInfoFactory classifies as the given kind
KindDesc(kind, name, deps, devDeps) ==
  CASE kind = "plain" -> Desc(name, FALSE, {}, deps, devDeps)
    [] kind = "ember" -> Desc(name, TRUE, {}, deps, devDeps)
    [] kind = "addon" -> Desc(name, TRUE, {"ember-addon"}, deps, devDeps)
    [] kind = "engine" ->
         Desc(name, TRUE, {"ember-addon", "ember-engine"}, deps, devDeps)
    [] OTHER -> Desc(name, TRUE, {}, deps, devDeps \o <<EMBER_CLI>>)

WithPaths(d, paths) ==
  [d EXCEPT !.addonBlock = "object", !.hasPaths = TRUE, !.paths = paths]

WithProjectRoot(d, rel) ==
  [d EXCEPT !.addonBlock = "object", !.projectRoot = rel]

WithMain(d, main) == [d EXCEPT !.main = main]

(***************************************************************************)
(* The filesystem: dirs and files are canonical paths, links maps the path *)
(* of a symbolic link to the canonical directory it points to, json gives  *)
(* the contents of each package.json, cwd is process.cwd().                *)
(***************************************************************************)
Prefixes(p) == {SubSeq(p, 1, k) : k \in 0..Len(p)}

\* the order in which readdirSync lists names
DirOrder ==
  <<".bin", "@s", "@t", "_old", "a", "addon1", "app", "b", "d",
    "ember-cli-build.js", "index.js", "junk", "lib", "node_modules", "nodesc",
    "nomain", "nope", "p", "package.json", "prim", "q", "r", "readme", "top",
    "unp", "ws", "x", "y">>

\* A tree with a package.json (and an index.js, unless listed in noMain) in
\* every directory of DOMAIN pkgs.
MkFs(pkgs, extraDirs, extraFiles, links, noMain, cwd) ==
  [dirs |-> UNION {Prefixes(p) : p \in (DOMAIN pkgs) \cup extraDirs \cup {cwd}},
   files |-> {Append(p, PACKAGE_JSON) : p \in DOMAIN pkgs}
               \cup {Append(p, "index.js") : p \in (DOMAIN pkgs) \ noMain}
               \cup extraFiles,
   links |-> links,
   json |-> [f \in {Append(p, PACKAGE_JSON) : p \in DOMAIN pkgs} |->
               pkgs[Front(f)]],
   cwd |-> cwd]

NoLinks == [p \in {} |-> <<>>]

RECURSIVE ResolveFrom(_, _)
ResolveFrom(acc, rest) ==
  IF rest = <<>> THEN acc
  ELSE LET nxt == Append(acc, Head(rest)) IN
       ResolveFrom(IF nxt \in DOMAIN fs.links THEN fs.links[nxt] ELSE nxt,
                   Tail(rest))

\* fs.realpathSync of a path that exists: relative paths are taken from cwd,
\* every symbolic link on the way is followed
RealPath(p) ==
  ResolveFrom(<<>>, IF IsAbsolute(p) THEN p ELSE Normalize(fs.cwd \o Tail(p)))

\* resolve-package-path: the canonical path of a directory, or null
getRealDirectoryPath(p) ==
  LET r == RealPath(p) IN IF r \in fs.dirs THEN r ELSE NoPath

\* getRealFilePath answering with a path for a file that is not there
getRealFilePath_alwaysFound(p) == RealPath(p)

\* resolve-package-path: the canonical path of a regular file, or null
getRealFilePath(p) ==
  LET r == RealPath(p) IN IF r \in fs.files THEN r ELSE NoPath

existsSync(p) == RealPath(p) \in fs.dirs \cup fs.files

\* path.resolve(a, rel): absolute, a relative a being taken from cwd
Resolve(a, rel) ==
  Normalize((IF IsAbsolute(a) THEN a ELSE fs.cwd \o Tail(a)) \o rel)

\* fs.readdirSync(realPath)
readdirSync(realPath) ==
  SelectSeq(DirOrder,
            LAMBDA n : LET c == Append(realPath, n) IN
                       c \in fs.dirs \/ c \in fs.files \/ c \in DOMAIN fs.links)

\* fs.readJsonSync(file, {throws: false}): the file's contents; kind
\* "missing" stands for the null returned when there is no such file
readJsonSync(file) ==
  LET r == RealPath(file) IN
  IF r \in DOMAIN fs.json THEN fs.json[r]
  ELSE [kind |-> "missing", desc |-> InvalidPackageJson]

(***************************************************************************)
(* Objects.  One record shape serves PackageInfo (and its subclasses) and  *)
(* NodeModulesList; cls is the object's class.                             *)
(***************************************************************************)
\* a Map<string, PackageInfo> property that is still undefined
NoMap == [defined |-> FALSE, pairs |-> <<>>]

\* the data of an ErrorEntry: a path, or a list of names
ErrPath(p) == [path |-> p, names |-> <<>>]
ErrNames(ns) == [path |-> <<>>, names |-> ns]
ErrNone == [path |-> <<>>, names |-> <<>>]

ErrorEntry(type, data) == [type |-> type, data |-> data]

ClsPackageInfo == {"PackageInfo", "EmberPackageInfo", "EmberAddonPackageInfo",
                   "EmberEnginePackageInfo", "EmberAppPackageInfo"}

\* obj instanceof PackageInfo
IsPackageInfo(o) == o.cls \in ClsPackageInfo
\* obj instanceof NodeModulesList
IsNodeModulesList(o) == o.cls = "NodeModulesList"
\* obj instanceof EmberAddonPackageInfo
IsEmberAddonPackageInfo(o) ==
  o.cls \in {"EmberAddonPackageInfo", "EmberEnginePackageInfo"}
\* obj instanceof EmberAppPackageInfo
IsEmberAppPackageInfo(o) == o.cls = "EmberAppPackageInfo"

\* new PackageInfo(pkgObj, realPath, cache, isRoot); nDeps and nDevDeps count
\* the assignments made to dependenciesPackages and devDependenciesPackages
PackageInfo(cls, pkgObj, realPath, isRoot) ==
  [cls |-> cls, packageJson |-> pkgObj, realPath |-> realPath,
   isRoot |-> isRoot, errors |-> <<>>,
   dependenciesPackages |-> NoMap, devDependenciesPackages |-> NoMap,
   nodeModules |-> UNDEF, processed |-> FALSE, valid |-> TRUE,
   hasInRepoAddons |-> FALSE, inRepoAddons |-> <<>>,
   addonMainPath |-> NoPath, hasEntries |-> FALSE, entries |-> <<>>,
   nDeps |-> 0, nDevDeps |-> 0]

\* new NodeModulesList(realPath, cache)
NodeModulesList(realPath) ==
  [cls |-> "NodeModulesList", packageJson |-> InvalidPackageJson,
   realPath |-> realPath, isRoot |-> FALSE, errors |-> <<>>,
   dependenciesPackages |-> NoMap, devDependenciesPackages |-> NoMap,
   nodeModules |-> UNDEF, processed |-> FALSE, valid |-> TRUE,
   hasInRepoAddons |-> FALSE, inRepoAddons |-> <<>>,
   addonMainPath |-> NoPath, hasEntries |-> FALSE, entries |-> <<>>,
   nDeps |-> 0, nDevDeps |-> 0]

\* NodeModulesList.nullInstance: new this('/dev/null'), frozen
nullInstance == NodeModulesList(<<"dev", "null">>)

(***************************************************************************)
(* Type guards and the factory.                                            *)
(***************************************************************************)
isEmberPackageJson(d) == d.edition

isEmberAddonPackageJson(d) ==
  /\ isEmberPackageJson(d)
  /\ "ember-addon" \in d.keywords
  /\ d.addonBlock \in {"none", "object"}

isEmberEnginePackageJson(d) ==
  isEmberAddonPackageJson(d) /\ "ember-engine" \in d.keywords

\* hasDependency(obj, name) || hasDevDependency(obj, name)
hasItemInList(names, name) == \E i \in 1..Len(names) : names[i] = name

isEmberAppPackageJson(d) ==
  /\ isEmberPackageJson(d)
  /\ "ember-addon" \notin d.keywords
  /\ hasItemInList(d.deps, EMBER_CLI) \/ hasItemInList(d.devDeps, EMBER_CLI)

\* main values for which path.extname(main) is not empty
WithExtname == {"index.js", "addon-main.js"}

\* the entry point file name the EmberAddonPackageInfo constructor computes
MainFile(d) ==
  LET main == IF d.addonMain # "" THEN d.addonMain ELSE d.main IN
  IF main = "" \/ main = "." \/ main = "./" THEN "index.js"
  ELSE IF main \notin WithExtname THEN main \o ".js"
  ELSE main

\* the constructor marking the object invalid without recording the error
EmberAddonPackageInfo_unrecorded(cls, pkgObj, realPath, isRoot) ==
  LET o == PackageInfo(cls, [pkgObj EXCEPT !.main = MainFile(pkgObj)],
                       realPath, isRoot)
      mainPath == Append(realPath, MainFile(pkgObj))
      mainRealPath == getRealFilePath(mainPath)
  IN IF mainRealPath # NoPath
     THEN [o EXCEPT !.addonMainPath = mainRealPath]
     ELSE [o EXCEPT !.valid = FALSE]

\* new EmberAddonPackageInfo(...) / new EmberEnginePackageInfo(...)
EmberAddonPackageInfo(cls, pkgObj, realPath, isRoot) ==
  LET o == PackageInfo(cls, [pkgObj EXCEPT !.main = MainFile(pkgObj)],
                       realPath, isRoot)
      mainPath == Append(realPath, MainFile(pkgObj))
      mainRealPath == getRealFilePath(mainPath)
  IN IF mainRealPath # NoPath
     THEN [o EXCEPT !.addonMainPath = mainRealPath]
     ELSE [o EXCEPT !.errors = Append(@, ErrorEntry(ERROR_EMBER_ADDON_MAIN_MISSING,
                                                   ErrPath(mainPath))),
                    !.valid = FALSE]

\* PackageInfoFactory.create
PackageInfoFactory_create(pkgJson, realPath, isRoot) ==
  IF isEmberEnginePackageJson(pkgJson)
  THEN EmberAddonPackageInfo("EmberEnginePackageInfo", pkgJson, realPath, isRoot)
  ELSE IF isEmberAddonPackageJson(pkgJson)
  THEN EmberAddonPackageInfo("EmberAddonPackageInfo", pkgJson, realPath, isRoot)
  ELSE IF isEmberAppPackageJson(pkgJson)
  THEN PackageInfo("EmberAppPackageInfo", pkgJson, realPath, isRoot)
  ELSE IF isEmberPackageJson(pkgJson)
  THEN PackageInfo("EmberPackageInfo", pkgJson, realPath, isRoot)
  ELSE PackageInfo("PackageInfo", pkgJson, realPath, isRoot)

(***************************************************************************)
(* The cache while a call runs: st.entries is the Map (in insertion        *)
(* order), st.heap the objects, st.nullInstance the object behind          *)
(* NodeModulesList.nullInstance, st.thrown the exception that is           *)
(* propagating ("" when none).                                             *)
(***************************************************************************)
Ret(st, v) == [st |-> st, ret |-> v]

Throw(st, what) == [st EXCEPT !.thrown = what]

\* Map.get on a sequence of key/value pairs
MapGet(pairs, key) ==
  LET hits == {i \in 1..Len(pairs) : pairs[i].key = key} IN
  IF hits = {} THEN UNDEF ELSE pairs[CHOOSE i \in hits : TRUE].val

\* Map.set: a known key keeps its position and takes the new value
MapSet(pairs, key, val) ==
  IF \E i \in 1..Len(pairs) : pairs[i].key = key
  THEN [i \in 1..Len(pairs) |->
          IF pairs[i].key = key THEN [key |-> key, val |-> val] ELSE pairs[i]]
  ELSE Append(pairs, [key |-> key, val |-> val])

\* PackageInfoCache.getEntry
getEntry(st, absolutePath) == MapGet(st.entries, absolutePath)

\* PackageInfoCache.#addEntry
addEntry(st, absolutePath, entry) ==
  [st EXCEPT !.entries = MapSet(@, absolutePath, entry)]

\* addError dropping the errors the object had
addError_replacing(st, obj, errorType, errorData) ==
  IF obj = NULLINSTANCE THEN Throw(st, "TypeError")
  ELSE [st EXCEPT !.heap[obj].errors = <<ErrorEntry(errorType, errorData)>>]

\* ErrorList.addError on the object with the given reference; the errors
\* array of the null instance is frozen, and push on it throws
addError(st, obj, errorType, errorData) ==
  IF obj = NULLINSTANCE THEN Throw(st, "TypeError")
  ELSE [st EXCEPT !.heap[obj].errors = Append(@, ErrorEntry(errorType, errorData))]

\* NodeModulesList.addEntry; the null instance is frozen, and the
\* assignment to hasEntries throws (class bodies are strict mode code)
NodeModulesList_addEntry(st, list, entryName, entryVal) ==
  IF list = NULLINSTANCE THEN Throw(st, "TypeError")
  ELSE [st EXCEPT !.heap[list].hasEntries = TRUE,
                  !.heap[list].entries = MapSet(@, entryName, entryVal)]

\* entries.set(entryName, entryVal) on the Map itself: Object.freeze does
\* not reach the contents of a Map, so the Map of the null instance takes
\* the entry like any other
entriesSet(st, list, entryName, entryVal) ==
  IF list = NULLINSTANCE
  THEN [st EXCEPT !.nullInstance.entries = MapSet(@, entryName, entryVal)]
  ELSE [st EXCEPT !.heap[list].entries = MapSet(@, entryName, entryVal)]

\* errors.errors.push(entry) on the array itself: push on a frozen array
\* throws
errorsPush(st, list, entry) ==
  IF list = NULLINSTANCE THEN Throw(st, "TypeError")
  ELSE [st EXCEPT !.heap[list].errors = Append(@, entry)]

\* addInRepoAddon of EmberAddonPackageInfo and EmberAppPackageInfo
addInRepoAddon(st, obj, inRepoAddonPkg) ==
  [st EXCEPT !.heap[obj].hasInRepoAddons = TRUE,
             !.heap[obj].inRepoAddons = Append(@, inRepoAddonPkg)]

(***************************************************************************)
(* NodeModulesList.findPackage.  The result is the entry found (or UNDEF)  *)
(* and the exception raised ("" when none).  The name <<>> stands for      *)
(* undefined, which is what parts[1] is for a name "@scope" without '/'.   *)
(***************************************************************************)
Found(v) == [ret |-> v, thrown |-> ""]

\* findPackage looking every name up as it is, scoped or not
NodeModulesList_findPackage_withoutScope(st, list, packageName) ==
  LET this == IF list = NULLINSTANCE THEN st.nullInstance ELSE st.heap[list] IN
  IF ~this.hasEntries THEN Found(UNDEF)
  ELSE IF packageName = <<>> THEN [ret |-> UNDEF, thrown |-> "TypeError"]
  ELSE Found(MapGet(this.entries, packageName[1]))

RECURSIVE NodeModulesList_findPackage(_, _, _)
NodeModulesList_findPackage(st, list, packageName) ==
  LET this == IF list = NULLINSTANCE THEN st.nullInstance ELSE st.heap[list] IN
  IF ~this.hasEntries THEN Found(UNDEF)
  ELSE IF packageName = <<>> THEN [ret |-> UNDEF, thrown |-> "TypeError"]
  ELSE IF StartsWithAt(packageName[1])
  THEN LET entry == MapGet(this.entries, packageName[1]) IN
       IF entry # UNDEF /\ IsNodeModulesList(st.heap[entry])
       THEN NodeModulesList_findPackage(st, entry,
              IF Len(packageName) >= 2 THEN <<packageName[2]>> ELSE <<>>)
       ELSE Found(UNDEF)
  ELSE IF Len(packageName) = 1
  THEN Found(MapGet(this.entries, packageName[1]))
  ELSE Found(UNDEF)

(***************************************************************************)
(* PackageInfoCache.#readPackage and #readNodeModulesList.  depth is the   *)
(* number of nested calls; beyond MaxDepth the call stack overflows.       *)
(***************************************************************************)
RECURSIVE readPackage(_, _, _, _)
RECURSIVE readNodeModulesList(_, _, _)
RECURSIVE readInRepoAddons(_, _, _, _, _)
RECURSIVE readEntries(_, _, _, _, _)

\* the package taking the null instance and entering itself in its Map
withoutNodeModules_entered(st, newPackageInfo) ==
  entriesSet([st EXCEPT !.heap[newPackageInfo].nodeModules = NULLINSTANCE],
             NULLINSTANCE, "self", newPackageInfo)

\* #readPackage for a package that is no addon and no app: its nodeModules
\* is the null instance
withoutNodeModules(st, newPackageInfo) ==
  [st EXCEPT !.heap[newPackageInfo].nodeModules = NULLINSTANCE]

\* the part of #readPackage after the lookups: build the object, register
\* it, read its in-repo addons and its node_modules
readPackageNew(st, normalizedPackageDir, realPath, pathFailed, isRoot, depth) ==
  LET packageJsonPath == Append(realPath, PACKAGE_JSON)
      packageDataPath == getRealFilePath(packageJsonPath)
      pkgObj == readJsonSync(packageDataPath)
      setupErrors ==
        IF pathFailed
        THEN <<ErrorEntry(ERROR_PACKAGE_DIR_MISSING, ErrPath(normalizedPackageDir))>>
        ELSE IF packageDataPath = NoPath
        THEN <<ErrorEntry(ERROR_PACKAGE_JSON_MISSING, ErrPath(packageJsonPath))>>
        ELSE IF pkgObj.kind \in {"unparseable", "missing"}
        THEN <<ErrorEntry(ERROR_PACKAGE_JSON_PARSE, ErrPath(packageDataPath))>>
        ELSE <<>>
      packageJson == IF setupErrors = <<>> THEN pkgObj.desc ELSE InvalidPackageJson
      newPackageInfo == Len(st.heap) + 1
      \* the object is created and registered
      Registered(created) ==
        addEntry([st EXCEPT !.heap = Append(@,
                    IF setupErrors # <<>>
                    THEN [created EXCEPT !.errors = setupErrors, !.valid = FALSE]
                    ELSE created)],
                 realPath, newPackageInfo)
      \* r: what #readNodeModulesList returned
      WithNodeModules(r) ==
        IF r.st.thrown # "" THEN Ret(r.st, UNDEF)
        ELSE IF r.ret # UNDEF
        THEN Ret([r.st EXCEPT !.heap[newPackageInfo].nodeModules = r.ret],
                 newPackageInfo)
        ELSE Ret(r.st, newPackageInfo)
      \* st3: the cache once the in-repo addons are read
      AfterInRepoAddons(st3) ==
        IF st3.thrown # "" THEN Ret(st3, UNDEF)
        ELSE IF IsEmberAddonPackageInfo(st3.heap[newPackageInfo])
                \/ IsEmberAppPackageInfo(st3.heap[newPackageInfo])
        THEN WithNodeModules(
               readNodeModulesList(st3, Append(realPath, NODE_MODULES), depth + 1))
        ELSE Ret(withoutNodeModules(st3, newPackageInfo), newPackageInfo)
      \* st2: the cache with the new object registered
      InRepoAddons(st2) ==
        AfterInRepoAddons(
          IF packageJson.hasPaths
          THEN readInRepoAddons(st2, newPackageInfo, realPath, packageJson.paths,
                                depth)
          ELSE st2)
  IN IF setupErrors = <<>> /\ pkgObj.kind = "primitive"
     THEN \* packageJson.root = realPath, on a value that is not an object
          Ret(Throw(st, "TypeError"), UNDEF)
     ELSE InRepoAddons(
            Registered(PackageInfoFactory_create(packageJson, realPath, isRoot)))

\* #readPackage building a new object without looking the path up
readPackage_withoutLookup(st, packageDir, isRoot, depth) ==
  IF depth > MaxDepth THEN Ret(Throw(st, "RangeError"), UNDEF)
  ELSE
  LET normalizedPackageDir == Normalize(packageDir)
      real == getRealDirectoryPath(normalizedPackageDir)
      pathFailed == real = NoPath
      realPath == IF pathFailed THEN normalizedPackageDir ELSE real
  IN readPackageNew(st, normalizedPackageDir, realPath, pathFailed,
                    isRoot, depth)

\* #readPackage returning whatever the table holds, a listing included
readPackage_withoutKindCheck(st, packageDir, isRoot, depth) ==
  IF depth > MaxDepth THEN Ret(Throw(st, "RangeError"), UNDEF)
  ELSE
  LET normalizedPackageDir == Normalize(packageDir)
      packageInfo == getEntry(st, normalizedPackageDir)
      real == getRealDirectoryPath(normalizedPackageDir)
      pathFailed == real = NoPath
      realPath == IF pathFailed THEN normalizedPackageDir ELSE real
      byRealPath == IF ~pathFailed /\ realPath # normalizedPackageDir
                    THEN getEntry(st, realPath) ELSE UNDEF
  IN IF packageInfo # UNDEF THEN Ret(st, packageInfo)
     ELSE IF byRealPath # UNDEF THEN Ret(st, byRealPath)
     ELSE readPackageNew(st, normalizedPackageDir, realPath, pathFailed,
                         isRoot, depth)

readPackage(st, packageDir, isRoot, depth) ==
  IF depth > MaxDepth THEN Ret(Throw(st, "RangeError"), UNDEF)
  ELSE
  LET normalizedPackageDir == Normalize(packageDir)
      packageInfo == getEntry(st, normalizedPackageDir)
      real == getRealDirectoryPath(normalizedPackageDir)
      pathFailed == real = NoPath
      realPath == IF pathFailed THEN normalizedPackageDir ELSE real
      byRealPath == IF ~pathFailed /\ realPath # normalizedPackageDir
                    THEN getEntry(st, realPath) ELSE UNDEF
  IN IF packageInfo # UNDEF
     THEN IF IsPackageInfo(st.heap[packageInfo]) THEN Ret(st, packageInfo)
          ELSE Ret(Throw(st, "Error"), UNDEF)
     ELSE IF byRealPath # UNDEF
     THEN IF IsPackageInfo(st.heap[byRealPath]) THEN Ret(st, byRealPath)
          ELSE Ret(Throw(st, "Error"), UNDEF)
     ELSE readPackageNew(st, normalizedPackageDir, realPath, pathFailed,
                         isRoot, depth)

\* the paths.forEach of #readPackage
readInRepoAddons(st, newPackageInfo, realPath, paths, depth) ==
  IF paths = <<>> \/ st.thrown # "" THEN st
  ELSE
  LET addonPath == Join(realPath, Head(paths))
      \* r: what #readPackage returned for addonPath
      Each(r) ==
        IF r.st.thrown # "" THEN r.st
        ELSE readInRepoAddons(
               IF IsEmberAddonPackageInfo(r.st.heap[r.ret])
               THEN IF IsEmberAddonPackageInfo(r.st.heap[newPackageInfo])
                       \/ IsEmberAppPackageInfo(r.st.heap[newPackageInfo])
                    THEN addInRepoAddon(r.st, newPackageInfo, r.ret)
                    ELSE \* the object has no addInRepoAddon method
                         Throw(r.st, "TypeError")
               ELSE [addError(r.st, newPackageInfo, ERROR_PATHS_ENTRY_NOT_ADDON,
                              ErrNone)
                       EXCEPT !.heap[newPackageInfo].valid = FALSE],
               newPackageInfo, realPath, Tail(paths), depth)
  IN Each(readPackage(st, addonPath, FALSE, depth + 1))

\* the filter without its package.json test
KeepFileName_anyChild(realPath, fileName) ==
  ~StartsWithDotOrUnderscore(fileName)

\* the filter applied to fs.readdirSync(realPath) in #readNodeModulesList
KeepFileName(realPath, fileName) ==
  IF StartsWithDotOrUnderscore(fileName) THEN FALSE
  ELSE IF StartsWithAt(fileName) THEN TRUE
  ELSE existsSync(realPath \o <<fileName, PACKAGE_JSON>>)

\* #readNodeModulesList entering an empty listing for a directory that does
\* not exist
readNodeModulesList_cachingMisses(st, nodeModulesDir, depth) ==
  IF depth > MaxDepth THEN Ret(Throw(st, "RangeError"), UNDEF)
  ELSE
  LET normalizedNodeModulesDir == Normalize(nodeModulesDir)
      nodeModulesEntry == getEntry(st, normalizedNodeModulesDir)
      realPath == getRealDirectoryPath(normalizedNodeModulesDir)
      byRealPath == IF realPath # NoPath /\ realPath # normalizedNodeModulesDir
                    THEN getEntry(st, realPath) ELSE UNDEF
      newNodeModulesList == Len(st.heap) + 1
      names == SelectSeq(readdirSync(realPath),
                         LAMBDA fileName : KeepFileName(realPath, fileName))
      \* st2: the cache once every entry is read
      Register(st2) ==
        IF st2.thrown # "" THEN Ret(st2, UNDEF)
        ELSE Ret(addEntry(st2, realPath, newNodeModulesList), newNodeModulesList)
  IN IF nodeModulesEntry # UNDEF
     THEN IF IsNodeModulesList(st.heap[nodeModulesEntry])
          THEN Ret(st, nodeModulesEntry)
          ELSE Ret(Throw(st, "Error"), UNDEF)
     ELSE IF realPath = NoPath
     THEN Ret(addEntry([st EXCEPT !.heap =
                          Append(@, NodeModulesList(normalizedNodeModulesDir))],
                       normalizedNodeModulesDir, newNodeModulesList),
              newNodeModulesList)
     ELSE IF byRealPath # UNDEF
     THEN IF IsNodeModulesList(st.heap[byRealPath]) THEN Ret(st, byRealPath)
          ELSE Ret(Throw(st, "Error"), UNDEF)
     ELSE Register(
            readEntries([st EXCEPT !.heap = Append(@, NodeModulesList(realPath))],
                        newNodeModulesList, realPath, names, depth))

readNodeModulesList(st, nodeModulesDir, depth) ==
  IF depth > MaxDepth THEN Ret(Throw(st, "RangeError"), UNDEF)
  ELSE
  LET normalizedNodeModulesDir == Normalize(nodeModulesDir)
      nodeModulesEntry == getEntry(st, normalizedNodeModulesDir)
      realPath == getRealDirectoryPath(normalizedNodeModulesDir)
      byRealPath == IF realPath # NoPath /\ realPath # normalizedNodeModulesDir
                    THEN getEntry(st, realPath) ELSE UNDEF
      newNodeModulesList == Len(st.heap) + 1
      names == SelectSeq(readdirSync(realPath),
                         LAMBDA fileName : KeepFileName(realPath, fileName))
      \* st2: the cache once every entry is read
      Register(st2) ==
        IF st2.thrown # "" THEN Ret(st2, UNDEF)
        ELSE Ret(addEntry(st2, realPath, newNodeModulesList), newNodeModulesList)
  IN IF nodeModulesEntry # UNDEF
     THEN IF IsNodeModulesList(st.heap[nodeModulesEntry])
          THEN Ret(st, nodeModulesEntry)
          ELSE Ret(Throw(st, "Error"), UNDEF)
     ELSE IF realPath = NoPath THEN Ret(st, UNDEF)
     ELSE IF byRealPath # UNDEF
     THEN IF IsNodeModulesList(st.heap[byRealPath]) THEN Ret(st, byRealPath)
          ELSE Ret(Throw(st, "Error"), UNDEF)
     ELSE Register(
            readEntries([st EXCEPT !.heap = Append(@, NodeModulesList(realPath))],
                        newNodeModulesList, realPath, names, depth))

\* the forEach passing over a scope directory that cannot be read
RECURSIVE readEntries_silent(_, _, _, _, _)
readEntries_silent(st, newNodeModulesList, realPath, names, depth) ==
  IF names = <<>> \/ st.thrown # "" THEN st
  ELSE
  LET entryName == Head(names)
      entryPath == Join(realPath, <<entryName>>)
      \* r: what #readNodeModulesList returned for a scope directory
      Scope(r) ==
        IF r.st.thrown # "" THEN r.st
        ELSE IF r.ret # UNDEF
        THEN NodeModulesList_addEntry(r.st, newNodeModulesList, entryName, r.ret)
        ELSE r.st
      \* r: what #readPackage returned for a package directory
      Package(r) ==
        IF r.st.thrown # "" THEN r.st
        ELSE NodeModulesList_addEntry(r.st, newNodeModulesList, entryName, r.ret)
  IN readEntries_silent(
       IF getRealFilePath(entryPath) # NoPath THEN st
       ELSE IF StartsWithAt(entryName)
       THEN Scope(readNodeModulesList(st, entryPath, depth + 1))
       ELSE Package(readPackage(st, entryPath, FALSE, depth + 1)),
       newNodeModulesList, realPath, Tail(names), depth)

\* the entries.forEach of #readNodeModulesList
readEntries(st, newNodeModulesList, realPath, names, depth) ==
  IF names = <<>> \/ st.thrown # "" THEN st
  ELSE
  LET entryName == Head(names)
      entryPath == Join(realPath, <<entryName>>)
      \* r: what #readNodeModulesList returned for a scope directory
      Scope(r) ==
        IF r.st.thrown # "" THEN r.st
        ELSE IF r.ret # UNDEF
        THEN NodeModulesList_addEntry(r.st, newNodeModulesList, entryName, r.ret)
        ELSE addError(r.st, newNodeModulesList, ERROR_NODEMODULES_ENTRY_MISSING,
                      ErrNames(<<<<entryName>>>>))
      \* r: what #readPackage returned for a package directory
      Package(r) ==
        IF r.st.thrown # "" THEN r.st
        ELSE NodeModulesList_addEntry(r.st, newNodeModulesList, entryName, r.ret)
  IN readEntries(
       IF getRealFilePath(entryPath) # NoPath THEN st
       ELSE IF StartsWithAt(entryName)
       THEN Scope(readNodeModulesList(st, entryPath, depth + 1))
       ELSE Package(readPackage(st, entryPath, FALSE, depth + 1)),
       newNodeModulesList, realPath, Tail(names), depth)

(***************************************************************************)
(* PackageInfoCache.findPackage: the upward search.  iterations counts the *)
(* passes through the loop body.  A loop that can never end is reported as *)
(* thrown = "diverges": the current path is its own parent and is not the  *)
(* root the loop waits for, and the probe just made changes nothing.       *)
(***************************************************************************)
RECURSIVE findPackageLoop(_, _, _, _, _)
findPackageLoop(st, packageName, root, currPath, iterations) ==
  IF currPath = root
  THEN [st |-> st, ret |-> UNDEF, iterations |-> iterations]
  ELSE
  LET endsWithNodeModules == Basename(currPath) = NODE_MODULES
      nodeModulesPath == IF endsWithNodeModules THEN currPath
                         ELSE Append(currPath, NODE_MODULES)
      \* r: what #readNodeModulesList returned for nodeModulesPath
      Probe(r) ==
        LET pkg == IF r.ret # UNDEF
                   THEN NodeModulesList_findPackage(r.st, r.ret, packageName)
                   ELSE Found(UNDEF)
        IN IF r.st.thrown # ""
           THEN [st |-> r.st, ret |-> UNDEF, iterations |-> iterations + 1]
           ELSE IF pkg.thrown # ""
           THEN [st |-> Throw(r.st, pkg.thrown), ret |-> UNDEF,
                 iterations |-> iterations + 1]
           ELSE IF pkg.ret # UNDEF
           THEN [st |-> r.st, ret |-> pkg.ret, iterations |-> iterations + 1]
           ELSE IF Dirname(currPath) = currPath
           THEN [st |-> Throw(r.st, "diverges"), ret |-> UNDEF,
                 iterations |-> iterations + 1]
           ELSE findPackageLoop(r.st, packageName, root, Dirname(currPath),
                                iterations + 1)
  IN Probe(readNodeModulesList(st, nodeModulesPath, 1))

findPackage(st, packageName, startPath) ==
  findPackageLoop(st, packageName, ParseRoot(startPath), startPath, 0)

\* PackageInfoCache.findDependency: it traces its arguments and returns
\* undefined
findDependency(st, startPath, dependencyName) == Ret(st, UNDEF)

(***************************************************************************)
(* PackageInfo.doAddDependencies and the resolution pass.                  *)
(***************************************************************************)
\* the forEach going up the tree for every name, the own listing left out
RECURSIVE addDependenciesLoop_up(_, _, _, _, _)
addDependenciesLoop_up(st, this, dependencyNames, packages, missingDependencies) ==
  IF dependencyNames = <<>> \/ st.thrown # ""
  THEN [st |-> st, packages |-> packages,
        missingDependencies |-> missingDependencies]
  ELSE
  LET dependencyName == Head(dependencyNames)
      Each(up) ==
        addDependenciesLoop_up(
          up.st, this, Tail(dependencyNames),
          IF up.st.thrown = "" /\ up.ret # UNDEF
          THEN MapSet(packages, dependencyName, up.ret) ELSE packages,
          IF up.st.thrown = "" /\ up.ret = UNDEF
          THEN Append(missingDependencies, dependencyName)
          ELSE missingDependencies)
  IN Each(findPackage(st, dependencyName, Dirname(st.heap[this].realPath)))

\* the dependencyNames.forEach of doAddDependencies
RECURSIVE addDependenciesLoop(_, _, _, _, _)
addDependenciesLoop(st, this, dependencyNames, packages, missingDependencies) ==
  IF dependencyNames = <<>> \/ st.thrown # ""
  THEN [st |-> st, packages |-> packages,
        missingDependencies |-> missingDependencies]
  ELSE
  LET dependencyName == Head(dependencyNames)
      nodeModules == st.heap[this].nodeModules
      own == IF nodeModules # UNDEF
             THEN NodeModulesList_findPackage(st, nodeModules, dependencyName)
             ELSE Found(UNDEF)
      \* up: the package found, by the own listing or by the upward search
      Each(up) ==
        addDependenciesLoop(
          up.st, this, Tail(dependencyNames),
          IF up.st.thrown = "" /\ up.ret # UNDEF
          THEN MapSet(packages, dependencyName, up.ret) ELSE packages,
          IF up.st.thrown = "" /\ up.ret = UNDEF
          THEN Append(missingDependencies, dependencyName)
          ELSE missingDependencies)
  IN IF own.thrown # ""
     THEN [st |-> Throw(st, own.thrown), packages |-> packages,
           missingDependencies |-> missingDependencies]
     ELSE Each(IF own.ret = UNDEF
               THEN findPackage(st, dependencyName,
                                Dirname(st.heap[this].realPath))
               ELSE [st |-> st, ret |-> own.ret, iterations |-> 0])

\* doAddDependencies without the addError for the names not found
doAddDependencies_withoutError(st, this, dependencyNames, errorType) ==
  IF dependencyNames = <<>> THEN Ret(st, NoMap)
  ELSE
  LET Done(r) ==
        IF r.st.thrown # "" THEN Ret(r.st, NoMap)
        ELSE Ret(r.st, [defined |-> TRUE, pairs |-> r.packages])
  IN Done(addDependenciesLoop(st, this, dependencyNames, <<>>, <<>>))

\* doAddDependencies marking the node not valid when a name is not found
doAddDependencies_invalidating(st, this, dependencyNames, errorType) ==
  IF dependencyNames = <<>> THEN Ret(st, NoMap)
  ELSE
  LET Done(r) ==
        IF r.st.thrown # "" THEN Ret(r.st, NoMap)
        ELSE Ret(IF r.missingDependencies # <<>>
                 THEN [addError(r.st, this, errorType,
                                ErrNames(r.missingDependencies))
                         EXCEPT !.heap[this].valid = FALSE]
                 ELSE r.st,
                 [defined |-> TRUE, pairs |-> r.packages])
  IN Done(addDependenciesLoop(st, this, dependencyNames, <<>>, <<>>))

\* PackageInfo.doAddDependencies: ret is the Map returned, or NoMap for
\* undefined
doAddDependencies(st, this, dependencyNames, errorType) ==
  IF dependencyNames = <<>> THEN Ret(st, NoMap)
  ELSE
  LET Done(r) ==
        IF r.st.thrown # "" THEN Ret(r.st, NoMap)
        ELSE Ret(IF r.missingDependencies # <<>>
                 THEN addError(r.st, this, errorType,
                               ErrNames(r.missingDependencies))
                 ELSE r.st,
                 [defined |-> TRUE, pairs |-> r.packages])
  IN Done(addDependenciesLoop(st, this, dependencyNames, <<>>, <<>>))

\* PackageInfoCache.#getPackageInfos
getPackageInfos(st) ==
  LET pis == SelectSeq(st.entries, LAMBDA e : IsPackageInfo(st.heap[e.val])) IN
  [i \in 1..Len(pis) |-> pis[i].val]

\* resolveOne adding the devDependencies of every package, root or not
resolveOne_devDependenciesForAll(st, packageInfo) ==
  IF st.heap[packageInfo].processed THEN st
  ELSE
  LET pkgJson == st.heap[packageInfo].packageJson
      DevDependencies(dd) ==
        IF dd.st.thrown # "" THEN dd.st
        ELSE [dd.st EXCEPT
                !.heap[packageInfo].devDependenciesPackages = dd.ret,
                !.heap[packageInfo].nDevDeps = @ + 1,
                !.heap[packageInfo].processed = TRUE]
      Dependencies(d) ==
        IF d.st.thrown # "" THEN d.st
        ELSE DevDependencies(
               doAddDependencies(
                 [d.st EXCEPT !.heap[packageInfo].dependenciesPackages = d.ret,
                              !.heap[packageInfo].nDeps = @ + 1],
                 packageInfo, pkgJson.devDeps, ERROR_DEVDEPENDENCIES_MISSING))
  IN Dependencies(doAddDependencies(st, packageInfo, pkgJson.deps,
                                    ERROR_DEPENDENCIES_MISSING))

\* the body of the forEach of #resolveDependencies, for one packageInfo
resolveOne(st, packageInfo) ==
  IF st.heap[packageInfo].processed THEN st
  ELSE
  LET pkgJson == st.heap[packageInfo].packageJson
      \* dd: what addDevDependencies returned
      DevDependencies(dd) ==
        IF dd.st.thrown # "" THEN dd.st
        ELSE [dd.st EXCEPT
                !.heap[packageInfo].devDependenciesPackages = dd.ret,
                !.heap[packageInfo].nDevDeps = @ + 1,
                !.heap[packageInfo].processed = TRUE]
      \* d: what addDependencies returned
      Dependencies(d) ==
        IF d.st.thrown # "" THEN d.st
        ELSE IF st.heap[packageInfo].isRoot
        THEN DevDependencies(
               doAddDependencies(
                 [d.st EXCEPT !.heap[packageInfo].dependenciesPackages = d.ret,
                              !.heap[packageInfo].nDeps = @ + 1],
                 packageInfo, pkgJson.devDeps, ERROR_DEVDEPENDENCIES_MISSING))
        ELSE [d.st EXCEPT !.heap[packageInfo].dependenciesPackages = d.ret,
                          !.heap[packageInfo].nDeps = @ + 1,
                          !.heap[packageInfo].processed = TRUE]
  IN Dependencies(doAddDependencies(st, packageInfo, pkgJson.deps,
                                    ERROR_DEPENDENCIES_MISSING))

RECURSIVE resolveLoop(_, _)
resolveLoop(st, packageInfos) ==
  IF packageInfos = <<>> \/ st.thrown # "" THEN st
  ELSE resolveLoop(resolveOne(st, Head(packageInfos)), Tail(packageInfos))

\* PackageInfoCache.#resolveDependencies
resolveDependencies(st) == resolveLoop(st, getPackageInfos(st))

(***************************************************************************)
(* The load methods, hasErrors and findErrors.                             *)
(***************************************************************************)
\* PackageInfoCache.hasErrors
hasErrors(st) ==
  \E i \in 1..Len(st.entries) : st.heap[st.entries[i].val].errors # <<>>

\* findErrors leaving the NodeModulesList objects out
findErrors_packagesOnly(st) ==
  LET errorEntries ==
        SelectSeq(st.entries,
                  LAMBDA e : IsPackageInfo(st.heap[e.val])
                             /\ st.heap[e.val].errors # <<>>)
  IN [i \in 1..Len(errorEntries) |-> errorEntries[i].val]

\* PackageInfoCache.findErrors
findErrors(st) ==
  LET errorEntries ==
        SelectSeq(st.entries, LAMBDA e : st.heap[e.val].errors # <<>>)
  IN [i \in 1..Len(errorEntries) |-> errorEntries[i].val]

\* loadApp without the early return for a node the pass has completed
loadApp_withoutProcessedCheck(st, appRootDir, isRoot) ==
  LET Loaded(r) ==
        IF r.st.thrown # "" THEN Ret(r.st, UNDEF)
        ELSE IF isRoot
        THEN Ret(resolveDependencies([r.st EXCEPT !.rootPackage = r.ret]), r.ret)
        ELSE r
  IN Loaded(readPackage(st, appRootDir, isRoot, 1))

\* loadApp running the resolution pass whatever isRoot is
loadApp_alwaysResolving(st, appRootDir, isRoot) ==
  LET Loaded(r) ==
        IF r.st.thrown # "" THEN Ret(r.st, UNDEF)
        ELSE IF r.st.heap[r.ret].processed THEN r
        ELSE Ret(resolveDependencies([r.st EXCEPT !.rootPackage = r.ret]), r.ret)
  IN Loaded(readPackage(st, appRootDir, isRoot, 1))

\* PackageInfoCache.loadApp
loadApp(st, appRootDir, isRoot) ==
  LET \* r: what #readPackage returned
      Loaded(r) ==
        IF r.st.thrown # "" THEN Ret(r.st, UNDEF)
        ELSE IF r.st.heap[r.ret].processed THEN r
        ELSE IF isRoot
        THEN Ret(resolveDependencies([r.st EXCEPT !.rootPackage = r.ret]), r.ret)
        ELSE r
  IN Loaded(readPackage(st, appRootDir, isRoot, 1))

\* PackageInfoCache.#findEmberProjectRoot: <<>> stands for undefined
findEmberProjectRoot(packageJson) ==
  IF ~isEmberPackageJson(packageJson) THEN <<>>
  ELSE IF packageJson.addonBlock = "object" THEN packageJson.projectRoot
  ELSE <<>>

\* PackageInfoCache.loadProject
loadProject(st, projectRootDirArg, isRoot) ==
  LET st1 == [st EXCEPT !.projectRootDir = projectRootDirArg]
      projectPkgJson == readJsonSync(Append(projectRootDirArg, PACKAGE_JSON))
      projectRoot == IF projectPkgJson.kind = "object"
                     THEN findEmberProjectRoot(projectPkgJson.desc)
                     ELSE <<>>
  IN IF projectPkgJson.kind \in {"missing", "unparseable"} \/ projectRoot = <<>>
     THEN loadApp(st1, projectRootDirArg, isRoot)
     ELSE IF existsSync(Append(projectRootDirArg, "ember-cli-build.js"))
     THEN Ret(Throw(st1, "Error"), UNDEF)
     ELSE loadApp(st1, Resolve(projectRootDirArg, projectRoot), isRoot)

\* loadAddon loading the project as the root package
loadAddon_projectAsRoot(st, addonRootDir, projectRelativePath) ==
  LET \* p: what loadProject returned
      Project(p, pkgInfo) ==
        IF p.st.thrown # "" THEN Ret(p.st, UNDEF)
        ELSE Ret(resolveDependencies(p.st), pkgInfo)
      \* r: what #readPackage returned
      Loaded(r) ==
        IF r.st.thrown # "" THEN Ret(r.st, UNDEF)
        ELSE IF r.st.heap[r.ret].processed THEN r
        ELSE Project(loadProject([r.st EXCEPT !.rootPackage = r.ret],
                                 Resolve(addonRootDir, projectRelativePath),
                                 TRUE),
                     r.ret)
  IN Loaded(readPackage(st, addonRootDir, TRUE, 1))

\* PackageInfoCache.loadAddon
loadAddon(st, addonRootDir, projectRelativePath) ==
  LET \* p: what loadProject returned
      Project(p, pkgInfo) ==
        IF p.st.thrown # "" THEN Ret(p.st, UNDEF)
        ELSE Ret(resolveDependencies(p.st), pkgInfo)
      \* r: what #readPackage returned
      Loaded(r) ==
        IF r.st.thrown # "" THEN Ret(r.st, UNDEF)
        ELSE IF r.st.heap[r.ret].processed THEN r
        ELSE Project(loadProject([r.st EXCEPT !.rootPackage = r.ret],
                                 Resolve(addonRootDir, projectRelativePath),
                                 FALSE),
                     r.ret)
  IN Loaded(readPackage(st, addonRootDir, TRUE, 1))

(***************************************************************************)
(* Project trees.  Each comes with the arguments the calls are made with:  *)
(* loadDirs for loadApp and loadProject, addonCalls for loadAddon,         *)
(* names and startPaths for findPackage.                                   *)
(***************************************************************************)
WithInputs(tree, loadDirs, addonCalls, names, startPaths) ==
  [dirs |-> tree.dirs, files |-> tree.files, links |-> tree.links,
   json |-> tree.json, cwd |-> tree.cwd, loadDirs |-> loadDirs,
   addonCalls |-> addonCalls, names |-> names, startPaths |-> startPaths]

\* A workspace: the app in /ws/app with its own node_modules and one in-repo
\* addon, more packages in /ws/node_modules.  "m", "dm" and "ember-cli" are
\* installed nowhere.  devExtra: further devDependencies of the app.
Workspace(devExtra) ==
  WithInputs(
    MkFs(<<"ws", "app">> :>
           JsonObject(WithPaths(
             KindDesc("app", "app",
                      <<<<"a">>, <<"x">>, <<"m">>, <<"@s", "y">>>>,
                      <<<<"d">>, <<"dm">>>> \o devExtra),
             <<<<"lib", "addon1">>>>))
         @@ <<"ws", "app", "node_modules", "a">> :>
           JsonObject(KindDesc("addon", "a", <<<<"x">>>>, <<<<"zz">>>>))
         @@ <<"ws", "app", "node_modules", "d">> :>
           JsonObject(KindDesc("plain", "d", <<>>, <<>>))
         @@ <<"ws", "app", "lib", "addon1">> :>
           JsonObject(KindDesc("addon", "addon1", <<<<"a">>>>, <<>>))
         @@ <<"ws", "node_modules", "x">> :>
           JsonObject(KindDesc("plain", "x", <<>>, <<>>))
         @@ <<"ws", "node_modules", "@s", "y">> :>
           JsonObject(KindDesc("plain", "y", <<<<"x">>>>, <<<<"a">>>>)),
         {<<"ws", "app", "node_modules", ".bin">>,
          <<"ws", "app", "node_modules", "junk">>},
         {<<"ws", "app", "node_modules", "readme">>},
         NoLinks, {}, <<"ws">>),
    {<<"ws", "app">>, <<"ws", "node_modules">>},
    {[dir |-> <<"ws", "app", "lib", "addon1">>, rel |-> <<"..", "..">>]},
    {<<"x">>, <<"m">>},
    {<<"ws", "app", "lib">>, <<"ws">>})

\* A root package of the given kind that declares "a", installed in its own
\* node_modules, and "m", installed nowhere.
Simple(kind) ==
  WithInputs(
    MkFs(<<"p">> :> JsonObject(KindDesc(kind, "p", <<<<"a">>, <<"m">>>>, <<>>))
         @@ <<"p", "node_modules", "a">> :>
           JsonObject(KindDesc("plain", "a", <<>>, <<>>)),
         {<<"p", "node_modules", "_old">>}, {}, NoLinks, {}, <<>>),
    {<<"p">>, <<"p", "missing">>, <<"p", "lib", "..", "missing">>,
     <<"p", "index.js">>},
    {[dir |-> <<"p", "node_modules", "a">>, rel |-> <<"..", "..">>]},
    {<<"a">>, <<"m">>},
    {<<"p">>, <<".", "p">>})

\* An addon in the app's node_modules whose own node_modules is a symbolic
\* link to the app's node_modules.
Symlinked ==
  WithInputs(
    MkFs(<<"p">> :> JsonObject(KindDesc("app", "p", <<<<"a">>>>, <<>>))
         @@ <<"p", "node_modules", "a">> :>
           JsonObject(KindDesc("addon", "a", <<>>, <<>>)),
         {}, {},
         <<"p", "node_modules", "a", "node_modules">> :> <<"p", "node_modules">>,
         {}, <<>>),
    {<<"p">>, <<"p", "node_modules", "a">>, <<"p", "node_modules">>,
     <<"p", "node_modules", "a", "node_modules">>},
    {},
    {<<"a">>},
    {<<"p">>, <<"p", "node_modules", "a">>})

\* A root package of the given kind that declares two in-repo addon paths:
\* an addon, and a directory that does not exist.
InRepo(kind) ==
  WithInputs(
    MkFs(<<"q">> :>
           JsonObject(WithPaths(KindDesc(kind, "q", <<>>, <<>>),
                                <<<<"lib", "addon1">>, <<"lib", "nope">>>>))
         @@ <<"q", "lib", "addon1">> :>
           JsonObject(KindDesc("addon", "addon1", <<>>, <<>>)),
         {}, {}, NoLinks, {}, <<>>),
    {<<"q">>, <<"q", "lib", "addon1">>, <<"q", "lib", "nope">>},
    {},
    {<<"addon1">>},
    {<<"q", "lib">>})

\* A root package of the given kind that declares two in-repo addon paths,
\* the second inside the first; both are addons, the second with a 'main'.
Nested(kind) ==
  WithInputs(
    MkFs(<<"q">> :>
           JsonObject(WithPaths(KindDesc(kind, "q", <<>>, <<>>),
                                <<<<"lib", "addon1">>,
                                  <<"lib", "addon1", "lib", "b">>>>))
         @@ <<"q", "lib", "addon1">> :>
           JsonObject(KindDesc("addon", "addon1", <<>>, <<>>))
         @@ <<"q", "lib", "addon1", "lib", "b">> :>
           JsonObject(WithMain(KindDesc("engine", "b", <<>>, <<>>), "index.js")),
         {}, {}, NoLinks, {}, <<>>),
    {<<"q">>, <<"q", "lib", "addon1">>},
    {[dir |-> <<"q", "lib", "addon1">>, rel |-> <<"..", "..">>]},
    {<<"b">>},
    {<<"q", "lib", "addon1">>})

\* Damaged packages: a package.json that does not parse, an addon without
\* its entry point file, a package.json that holds a number, a scope
\* directory that is a symbolic link to nothing, a regular file with the
\* name of a scope.
Damaged ==
  WithInputs(
    MkFs(<<"r">> :>
           JsonObject(KindDesc("app", "r", <<<<"unp">>, <<"nomain">>>>, <<>>))
         @@ <<"r", "node_modules", "unp">> :> JsonUnparseable
         @@ <<"r", "node_modules", "nomain">> :>
           JsonObject(KindDesc("addon", "nomain", <<>>, <<>>))
         @@ <<"prim">> :> JsonPrimitive,
         {<<"nodesc">>}, {<<"r", "node_modules", "@s">>},
         <<"r", "node_modules", "@t">> :> <<"gone">>,
         {<<"r", "node_modules", "nomain">>}, <<>>),
    {<<"r">>, <<"prim">>, <<"nodesc">>},
    {},
    {<<"unp">>},
    {<<"r">>})

\* A package installed in /node_modules, and an app in /top that declares it.
RootModules ==
  WithInputs(
    MkFs(<<"top">> :> JsonObject(KindDesc("app", "top", <<<<"r">>>>, <<>>))
         @@ <<"node_modules", "r">> :>
           JsonObject(KindDesc("plain", "r", <<>>, <<>>)),
         {}, {}, NoLinks, {}, <<>>),
    {<<"top">>},
    {},
    {<<"r">>},
    {<<"top">>, <<"node_modules">>})

\* An app whose in-repo addon declares two in-repo addon paths of its own:
\* the app's directory and its own directory.
SelfPath ==
  WithInputs(
    MkFs(<<"q">> :>
           JsonObject(WithPaths(KindDesc("app", "q", <<>>, <<>>),
                                <<<<"lib", "addon1">>>>))
         @@ <<"q", "lib", "addon1">> :>
           JsonObject(WithPaths(KindDesc("addon", "addon1", <<>>, <<>>),
                                <<<<"..", "..">>, <<".">>>>)),
         {}, {}, NoLinks, {}, <<>>),
    {<<"q">>, <<"q", "lib", "addon1">>},
    {},
    {<<"addon1">>},
    {<<"q", "lib">>})

\* An app whose node_modules holds a package and a scope directory that is
\* a symbolic link to that node_modules.
ScopeLoop ==
  WithInputs(
    MkFs(<<"p">> :> JsonObject(KindDesc("app", "p", <<<<"a">>>>, <<>>))
         @@ <<"p", "node_modules", "a">> :>
           JsonObject(KindDesc("plain", "a", <<>>, <<>>)),
         {}, {},
         <<"p", "node_modules", "@s">> :> <<"p", "node_modules">>,
         {}, <<>>),
    {<<"p">>},
    {},
    {<<"a">>},
    {<<"p">>})

\* An addon whose one declared name is "a", installed in its own node_modules and, as
\* another package, in the node_modules of the directory above.
Shadowed ==
  WithInputs(
    MkFs(<<"ws", "app">> :>
           JsonObject(KindDesc("addon", "app", <<<<"a">>>>, <<>>))
         @@ <<"ws", "app", "node_modules", "a">> :>
           JsonObject(KindDesc("plain", "a", <<>>, <<>>))
         @@ <<"ws", "node_modules", "a">> :>
           JsonObject(KindDesc("addon", "a", <<>>, <<>>)),
         {}, {}, NoLinks, {}, <<>>),
    {<<"ws", "app">>},
    {},
    {<<"a">>},
    {<<"ws", "app">>, <<"ws">>})

Fixtures ==
  <<Workspace(<<>>), Workspace(<<<<"@s">>>>), Symlinked, Damaged, RootModules,
    Simple("plain"), Simple("ember"), Simple("addon"), Simple("engine"),
    Simple("app"), InRepo("plain"), InRepo("app"), InRepo("addon"),
    Nested("plain"), Nested("app"), Nested("addon"), SelfPath, ScopeLoop,
    Shadowed>>

(***************************************************************************)
(* The state machine: one action per public method of PackageInfoCache.    *)
(* lastOp records the last call and its outcome, nOps counts the calls,    *)
(* completed records which loadApp(dir, true) calls returned, and with     *)
(* which node.                                                             *)
(***************************************************************************)
\* the cache as the call finds it
Cache ==
  [entries |-> entries, heap |-> heap, nullInstance |-> theNullInstance,
   thrown |-> "", rootPackage |-> rootPackage,
   projectRootDir |-> projectRootDir]

NoOp ==
  [op |-> "new", dir |-> <<>>, isRoot |-> FALSE, name |-> <<>>,
   rel |-> <<>>, ret |-> UNDEF, thrown |-> "", iterations |-> 0,
   again |-> FALSE, list |-> UNDEF, found |-> <<>>, flag |-> FALSE,
   args |-> <<>>, candidates |-> <<>>, excluded |-> {}]

\* the call is loadApp(dir, true), for a dir whose loadApp(dir, true) returned
\* before
IsSecondLoad(call) ==
  call.op = "loadApp" /\ call.isRoot /\ \E c \in completed : c.dir = call.dir

\* what a call leaves behind: the cache as it is when the call returns or
\* throws, and the record of the call
Finish(call, r) ==
  /\ entries' = r.st.entries
  /\ heap' = r.st.heap
  /\ theNullInstance' = r.st.nullInstance
  /\ rootPackage' = r.st.rootPackage
  /\ projectRootDir' = r.st.projectRootDir
  /\ lastOp' = [call EXCEPT !.ret = IF r.st.thrown = "" THEN r.ret ELSE UNDEF,
                            !.thrown = r.st.thrown,
                            !.iterations = IF "iterations" \in DOMAIN r
                                           THEN r.iterations ELSE 0,
                            !.again = IsSecondLoad(call)]
  /\ completed' = IF call.op = "loadApp" /\ call.isRoot /\ r.st.thrown = ""
                  THEN completed \cup {[dir |-> call.dir, node |-> r.ret]}
                  ELSE completed
  /\ nOps' = nOps + 1
  /\ UNCHANGED <<fs, packageList>>

\* new PackageInfoCache()
Init ==
  /\ \E i \in 1..Len(Fixtures) : fs = Fixtures[i]
  /\ entries = <<>>
  /\ heap = <<>>
  /\ theNullInstance = nullInstance
  /\ rootPackage = UNDEF
  /\ projectRootDir = NoPath
  /\ lastOp = NoOp
  /\ nOps = 0
  /\ completed = {}
  /\ packageList = <<>>

LoadApp(dir, isRoot) ==
  /\ nOps < MaxOps
  /\ Finish([NoOp EXCEPT !.op = "loadApp", !.dir = dir, !.isRoot = isRoot],
            loadApp(Cache, dir, isRoot))

LoadProject(dir, isRoot) ==
  /\ nOps < MaxOps
  /\ Finish([NoOp EXCEPT !.op = "loadProject", !.dir = dir,
                         !.isRoot = isRoot],
            loadProject(Cache, dir, isRoot))

LoadAddon(dir, rel) ==
  /\ nOps < MaxOps
  /\ Finish([NoOp EXCEPT !.op = "loadAddon", !.dir = dir, !.rel = rel,
                         !.isRoot = TRUE],
            loadAddon(Cache, dir, rel))

FindPackage(name, startPath) ==
  /\ nOps < MaxOps
  /\ Finish([NoOp EXCEPT !.op = "findPackage", !.name = name,
                         !.dir = startPath],
            findPackage(Cache, name, startPath))

FindDependency(startPath, dependencyName) ==
  /\ nOps < MaxOps
  /\ Finish([NoOp EXCEPT !.op = "findDependency", !.name = dependencyName,
                         !.dir = startPath],
            findDependency(Cache, startPath, dependencyName))

HasErrors ==
  /\ nOps < MaxOps
  /\ Finish([NoOp EXCEPT !.op = "hasErrors", !.flag = hasErrors(Cache)],
            Ret(Cache, UNDEF))

FindErrors ==
  /\ nOps < MaxOps
  /\ Finish([NoOp EXCEPT !.op = "findErrors", !.found = findErrors(Cache)],
            Ret(Cache, UNDEF))

Next ==
  \/ \E dir \in fs.loadDirs, isRoot \in BOOLEAN : LoadApp(dir, isRoot)
  \/ \E dir \in fs.loadDirs, isRoot \in BOOLEAN : LoadProject(dir, isRoot)
  \/ \E c \in fs.addonCalls : LoadAddon(c.dir, c.rel)
  \/ \E name \in fs.names, startPath \in fs.startPaths :
       FindPackage(name, startPath)
  \/ \E name \in fs.names, startPath \in fs.startPaths :
       FindDependency(startPath, name)
  \/ HasErrors
  \/ FindErrors

Spec == Init /\ [][Next]_vars

(***************************************************************************)
(* NodeModulesList used on its own, through its methods and its public     *)
(* fields, the null instance included.                                     *)
(***************************************************************************)
\* a tree with nothing in it
NoTree == WithInputs(MkFs(NoLinks, {}, {}, NoLinks, {}, <<>>), {}, {}, {}, {})

\* the receivers: the NodeModulesList objects and the null instance
Lists ==
  {o \in 1..Len(heap) : IsNodeModulesList(heap[o])} \cup {NULLINSTANCE}

\* file names used as entry names
EntryNames == {"a", "@s"}

\* package names looked up
PackageNames ==
  {<<"a">>, <<"b">>, <<"@s", "a">>, <<"@s", "b">>, <<"@t", "a">>, <<"@s">>}

\* what a call on a list leaves behind
FinishList(call, st, ret) ==
  /\ heap' = st.heap
  /\ theNullInstance' = st.nullInstance
  /\ lastOp' = [call EXCEPT !.ret = ret, !.thrown = st.thrown]
  /\ nOps' = nOps + 1
  /\ UNCHANGED <<fs, entries, rootPackage, projectRootDir, completed,
                 packageList>>

\* const list = new NodeModulesList('/dev/null'), scoped = new
\* NodeModulesList('foobar'), and a package to enter
ListInit ==
  /\ fs = NoTree
  /\ entries = <<>>
  /\ heap = <<NodeModulesList(<<"dev", "null">>),
              NodeModulesList(<<"foobar">>),
              PackageInfo("PackageInfo", InvalidPackageJson, <<"omg">>, FALSE)>>
  /\ theNullInstance = nullInstance
  /\ rootPackage = UNDEF
  /\ projectRootDir = NoPath
  /\ lastOp = NoOp
  /\ nOps = 0
  /\ completed = {}
  /\ packageList = <<>>

AddEntry(list, entryName, entryVal) ==
  /\ nOps < MaxListOps
  /\ FinishList([NoOp EXCEPT !.op = "addEntry", !.list = list,
                             !.name = <<entryName>>],
                NodeModulesList_addEntry(Cache, list, entryName, entryVal),
                UNDEF)

AddError(list, errorType) ==
  /\ nOps < MaxListOps
  /\ FinishList([NoOp EXCEPT !.op = "addError", !.list = list],
                addError(Cache, list, errorType, ErrNone), UNDEF)

EntriesSet(list, entryName, entryVal) ==
  /\ nOps < MaxListOps
  /\ FinishList([NoOp EXCEPT !.op = "entries.set", !.list = list,
                             !.name = <<entryName>>],
                entriesSet(Cache, list, entryName, entryVal), UNDEF)

ErrorsPush(list, errorType) ==
  /\ nOps < MaxListOps
  /\ FinishList([NoOp EXCEPT !.op = "errors.push", !.list = list],
                errorsPush(Cache, list, ErrorEntry(errorType, ErrNone)), UNDEF)

ListFindPackage(list, packageName) ==
  /\ nOps < MaxListOps
  /\ LET r == NodeModulesList_findPackage(Cache, list, packageName) IN
     FinishList([NoOp EXCEPT !.op = "NodeModulesList.findPackage",
                             !.list = list, !.name = packageName],
                Throw(Cache, r.thrown), r.ret)

ListNext ==
  \/ \E list \in Lists, entryName \in EntryNames, entryVal \in 2..Len(heap) :
       AddEntry(list, entryName, entryVal)
  \/ \E list \in Lists : AddError(list, ERROR_NODEMODULES_ENTRY_MISSING)
  \/ \E list \in Lists, entryName \in EntryNames, entryVal \in 2..Len(heap) :
       EntriesSet(list, entryName, entryVal)
  \/ \E list \in Lists : ErrorsPush(list, ERROR_NODEMODULES_ENTRY_MISSING)
  \/ \E list \in Lists, packageName \in PackageNames :
       ListFindPackage(list, packageName)

ListSpec == ListInit /\ [][ListNext]_vars

(***************************************************************************)
(* The utilities pushUnique and lexicographically and the method           *)
(* PackageInfo.addPackages, used on an array of objects with names.  An    *)
(* array is a sequence of heap indices, so that the same object can occur  *)
(* twice in it.                                                            *)
(***************************************************************************)
\* a 'name' property that is absent: typeof name is 'undefined'
NoName == "<undefined>"

\* get name(): this.packageJson.name
PackageInfo_name(o) == o.packageJson.name

\* String.prototype.localeCompare on the names used: '' before 'a' before 'b'
localeCompare(x, y) ==
  LET Collation == <<"", "a", "b">>
      Rank(s) == CHOOSE i \in 1..Len(Collation) : Collation[i] = s
  IN IF Rank(x) < Rank(y) THEN -1 ELSE IF Rank(x) > Rank(y) THEN 1 ELSE 0

\* the comparator with its two branches for one-sided names exchanged
lexicographically_namelessFirst(a, b) ==
  LET aIsString == PackageInfo_name(a) # NoName
      bIsString == PackageInfo_name(b) # NoName
      Truthy(n) == n # NoName /\ n # ""
  IN IF /\ Truthy(PackageInfo_name(a)) /\ Truthy(PackageInfo_name(b))
        /\ aIsString /\ bIsString
     THEN localeCompare(PackageInfo_name(a), PackageInfo_name(b))
     ELSE IF aIsString THEN 1
     ELSE IF bIsString THEN -1
     ELSE 0

\* lexicographically(a, b): 'a.name && b.name' is false for an absent name
\* and for the empty string
lexicographically(a, b) ==
  LET aIsString == PackageInfo_name(a) # NoName
      bIsString == PackageInfo_name(b) # NoName
      Truthy(n) == n # NoName /\ n # ""
  IN IF /\ Truthy(PackageInfo_name(a)) /\ Truthy(PackageInfo_name(b))
        /\ aIsString /\ bIsString
     THEN localeCompare(PackageInfo_name(a), PackageInfo_name(b))
     ELSE IF aIsString THEN -1
     ELSE IF bIsString THEN 1
     ELSE 0

\* Array.prototype.sort(lexicographically) as Node runs it on an array of
\* fewer than 64 elements: the leading run is found (and reversed when it is
\* strictly descending), then the other elements are put in place one by
\* one by binary insertion.  h is the heap the indices of the array refer to.
sort(h, array) ==
  LET Compare(x, y) == lexicographically(h[x], h[y])
      isDescending == Compare(array[2], array[1]) < 0
      \* the last index of the leading run
      RECURSIVE RunEnd(_)
      RunEnd(idx) ==
        IF idx > Len(array) THEN idx - 1
        ELSE IF isDescending = (Compare(array[idx], array[idx - 1]) < 0)
        THEN RunEnd(idx + 1)
        ELSE idx - 1
      Reverse(s) == [i \in 1..Len(s) |-> s[Len(s) + 1 - i]]
      \* the array with its leading run made ascending
      MakeRun(runLength) ==
        IF isDescending
        THEN Reverse(SubSeq(array, 1, runLength))
               \o SubSeq(array, runLength + 1, Len(array))
        ELSE array
      RECURSIVE BinarySearch(_, _, _, _)
      BinarySearch(work, pivot, left, right) ==
        IF left >= right THEN left
        ELSE LET mid == left + ((right - left) \div 2) IN
             IF Compare(pivot, work[mid]) < 0
             THEN BinarySearch(work, pivot, left, mid)
             ELSE BinarySearch(work, pivot, mid + 1, right)
      RECURSIVE BinaryInsertionSort(_, _)
      BinaryInsertionSort(work, start) ==
        IF start > Len(work) THEN work
        ELSE LET Insert(left) ==
                   SubSeq(work, 1, left - 1) \o <<work[start]>>
                     \o SubSeq(work, left, start - 1)
                     \o SubSeq(work, start + 1, Len(work))
             IN BinaryInsertionSort(
                  Insert(BinarySearch(work, work[start], 1, start)), start + 1)
      Sorted(runLength) == BinaryInsertionSort(MakeRun(runLength), runLength + 1)
  IN IF Len(array) < 2 THEN array ELSE Sorted(RunEnd(3))

\* pushUnique that appends only an entry the array does not hold
pushUnique_keepingPlace(array, entry) ==
  IF \E i \in 1..Len(array) : array[i] = entry THEN array
  ELSE Append(array, entry)

\* pushUnique(array, entry): splice(index, 1) when indexOf found the entry,
\* then push; index counts from 1 and is 0 when the entry is not there
pushUnique(array, entry) ==
  LET index == IF \E i \in 1..Len(array) : array[i] = entry
               THEN CHOOSE i \in 1..Len(array) :
                      array[i] = entry /\ \A j \in 1..(i - 1) : array[j] # entry
               ELSE 0
      spliced == IF index > 0
                 THEN SubSeq(array, 1, index - 1)
                        \o SubSeq(array, index + 1, Len(array))
                 ELSE array
  IN Append(spliced, entry)

\* PackageInfo.addPackages(packageList, packageInfos, excludeFn); excluded is
\* the set of objects excludeFn answers true for (empty without excludeFn).
\* The result is the array of the candidates kept, sorted in place.
addPackages(h, list, packageInfos, excluded) ==
  LET RECURSIVE PushAll(_, _)
      PushAll(array, sorted) ==
        IF sorted = <<>> THEN array
        ELSE PushAll(pushUnique(array, Head(sorted)), Tail(sorted))
      Pushed(result) ==
        [packageList |-> PushAll(list, result), result |-> result]
  IN Pushed(sort(h, SelectSeq(packageInfos, LAMBDA v : v \notin excluded)))

\* the objects of UtilSpec: named 'b', 'a', 'a', two without a name, and one
\* whose name is the empty string
NamedObjs ==
  [i \in 1..6 |->
     PackageInfo("PackageInfo",
                 Desc(<<"b", "a", "a", NoName, NoName, "">>[i],
                      FALSE, {}, <<>>, <<>>),
                 <<"o">>, FALSE)]

\* what a call on the array leaves behind
FinishUtil(call, array) ==
  /\ packageList' = array
  /\ lastOp' = [call EXCEPT !.args = packageList]
  /\ nOps' = nOps + 1
  /\ UNCHANGED <<fs, entries, heap, theNullInstance, rootPackage,
                 projectRootDir, completed>>

UtilInit ==
  /\ fs = NoTree
  /\ entries = <<>>
  /\ heap = NamedObjs
  /\ theNullInstance = nullInstance
  /\ rootPackage = UNDEF
  /\ projectRootDir = NoPath
  /\ lastOp = NoOp
  /\ nOps = 0
  /\ completed = {}
  /\ packageList \in UNION {[1..k -> 1..Len(NamedObjs)] : k \in 0..MaxLen}

\* packageList.sort(lexicographically)
Sort ==
  /\ nOps < MaxUtilOps
  /\ FinishUtil([NoOp EXCEPT !.op = "sort"], sort(heap, packageList))

PushUnique(entry) ==
  /\ nOps < MaxUtilOps
  /\ FinishUtil([NoOp EXCEPT !.op = "pushUnique", !.ret = entry],
                pushUnique(packageList, entry))

AddPackages(packageInfos, excluded) ==
  /\ nOps < MaxUtilOps
  /\ LET Done(r) ==
           FinishUtil([NoOp EXCEPT !.op = "addPackages",
                                   !.candidates = packageInfos,
                                   !.excluded = excluded,
                                   !.found = r.result],
                      r.packageList)
     IN Done(addPackages(heap, packageList, packageInfos, excluded))

UtilNext ==
  \/ Sort
  \/ \E entry \in 1..Len(heap) : PushUnique(entry)
  \/ \E packageInfos \in {<<4, 1, 5, 2>>, <<5, 3, 1, 4, 2>>, <<1, 6, 2>>,
                         <<2, 4, 2>>},
        excluded \in {{}, {2}} :
       AddPackages(packageInfos, excluded)

UtilSpec == UtilInit /\ [][UtilNext]_vars

(***************************************************************************)
(* Properties.  Helpers first: the objects of the heap, the values of a    *)
(* Map, the errors of one type, the objects reachable from a node.         *)
(***************************************************************************)
Objects == 1..Len(heap)

PackageInfos == {o \in Objects : IsPackageInfo(heap[o])}

\* the PackageInfo objects the table holds
TablePackageInfos ==
  {entries[i].val : i \in {j \in 1..Len(entries) : IsPackageInfo(heap[entries[j].val])}}

MapKeys(pairs) == {pairs[i].key : i \in 1..Len(pairs)}

MapVals(pairs) == {pairs[i].val : i \in 1..Len(pairs)}

SeqToSet(s) == {s[i] : i \in 1..Len(s)}

ErrorsOfType(o, type) == SelectSeq(heap[o].errors, LAMBDA e : e.type = type)

\* the names in the payloads of o's errors of the given type
MissingNames(o, type) ==
  UNION {SeqToSet(heap[o].errors[i].data.names) :
           i \in {j \in 1..Len(heap[o].errors) : heap[o].errors[j].type = type}}

\* the objects o refers to, the shared null instance left out
Successors(o) ==
  (IF heap[o].nodeModules \in Objects THEN {heap[o].nodeModules} ELSE {})
    \cup MapVals(heap[o].entries)
    \cup SeqToSet(heap[o].inRepoAddons)
    \cup MapVals(heap[o].dependenciesPackages.pairs)
    \cup MapVals(heap[o].devDependenciesPackages.pairs)

RECURSIVE Reachable(_)
Reachable(from) ==
  LET more == from \cup UNION {Successors(o) : o \in from} IN
  IF more = from THEN from ELSE Reachable(more)

IsLoad(call) == call.op \in {"loadApp", "loadProject", "loadAddon"}

\* a load that runs the resolution pass
IsRootLoad(call) == IsLoad(call) /\ call.isRoot

\* C1: every object reachable from the node the last call returned (through
\* nodeModules, listing entries, inRepoAddons, dependenciesPackages and
\* devDependenciesPackages) is the object the table holds under the
\* object's realPath.
C1_ReachableObjectsAreTableEntries ==
  lastOp.ret # UNDEF =>
    \A o \in Reachable({lastOp.ret}) : MapGet(entries, heap[o].realPath) = o

\* C2: a loadApp(dir, true) made after a loadApp(dir, true) that returned
\* returns the node the first one returned, without throwing, and leaves the
\* table (one entry for the node's path), every object and rootPackage as
\* they were.
C2_SecondLoadChangesNothing ==
  [][(nOps' = nOps + 1 /\ IsSecondLoad(lastOp'))
       => /\ lastOp'.thrown = ""
          /\ \A c \in completed : c.dir = lastOp'.dir => lastOp'.ret = c.node
          /\ Cardinality({i \in 1..Len(entries') :
                            entries'[i].key = heap'[lastOp'.ret].realPath}) = 1
          /\ entries' = entries
          /\ heap' = heap
          /\ rootPackage' = rootPackage]_vars

\* C2 witness: a second loadApp(dir, true) has returned a node that has
\* dependencies of its own, after another root was loaded in between
C2_Witness ==
  /\ lastOp.again
  /\ lastOp.thrown = ""
  /\ heap[lastOp.ret].dependenciesPackages.pairs # <<>>
  /\ rootPackage # lastOp.ret

\* the declared names are split between the Map and the payloads of the
\* errors of the given type
IsPartition(o, declared, packages, errorType) ==
  LET found == MapKeys(packages.pairs)
      missing == MissingNames(o, errorType)
  IN /\ packages.defined
     /\ found \cap missing = {}
     /\ found \cup missing = SeqToSet(declared)

\* C3: for every processed node that declares dependencies, the keys of
\* dependenciesPackages and the names in its dependenciesMissing payload are
\* disjoint and together are the declared names; the same for a root node's
\* devDependencies, devDependenciesPackages and devDependenciesMissing.
C3_DependenciesPartition ==
  \A o \in PackageInfos :
    heap[o].processed =>
      /\ heap[o].packageJson.deps # <<>> =>
           IsPartition(o, heap[o].packageJson.deps,
                       heap[o].dependenciesPackages, ERROR_DEPENDENCIES_MISSING)
      /\ (heap[o].isRoot /\ heap[o].packageJson.devDeps # <<>>) =>
           IsPartition(o, heap[o].packageJson.devDeps,
                       heap[o].devDependenciesPackages,
                       ERROR_DEVDEPENDENCIES_MISSING)

\* C3 witness: a processed root with found and missing names among both its
\* dependencies and its devDependencies
C3_Witness ==
  \E o \in PackageInfos :
    /\ heap[o].processed /\ heap[o].isRoot
    /\ heap[o].dependenciesPackages.pairs # <<>>
    /\ MissingNames(o, ERROR_DEPENDENCIES_MISSING) # {}
    /\ heap[o].devDependenciesPackages.pairs # <<>>
    /\ MissingNames(o, ERROR_DEVDEPENDENCIES_MISSING) # {}

\* the package called name is installed in the node_modules of dir
InstalledIn(dir, name) ==
  existsSync(dir \o <<NODE_MODULES>> \o name \o <<PACKAGE_JSON>>)

\* no node_modules directory of the tree holds anything called name
InstalledNowhere(name) ==
  \A d \in fs.dirs \cup fs.files \cup DOMAIN fs.links :
    \A k \in 1..Len(d) :
      (d[k] = NODE_MODULES /\ k + Len(name) <= Len(d))
        => SubSeq(d, k + 1, k + Len(name)) # name

\* C4: a root load of a package that declares one dependency installed in
\* its own node_modules and one installed nowhere returns a node with one
\* dependenciesPackages entry, for the first, and one dependenciesMissing
\* error that lists the second and nothing else, whatever the kind of the
\* package.
C4_OnePresentOneAbsent ==
  (IsRootLoad(lastOp) /\ lastOp.thrown = "" /\ heap[lastOp.ret].isRoot) =>
    LET root == heap[lastOp.ret]
        deps == root.packageJson.deps
    IN (/\ Len(deps) = 2
        /\ InstalledIn(root.realPath, deps[1])
        /\ InstalledNowhere(deps[2]))
       => /\ MapKeys(root.dependenciesPackages.pairs) = {deps[1]}
          /\ ErrorsOfType(lastOp.ret, ERROR_DEPENDENCIES_MISSING)
               = <<ErrorEntry(ERROR_DEPENDENCIES_MISSING, ErrNames(<<deps[2]>>))>>

RECURSIVE NodeResolveFrom(_, _)
\* the Node.js resolution of name from dir: the nearest of dir and its
\* ancestors, up to the filesystem root, whose node_modules holds the
\* package; NoPath when there is none
NodeResolveFrom(dir, name) ==
  IF Basename(dir) # NODE_MODULES /\ InstalledIn(dir, name)
  THEN RealPath(dir \o <<NODE_MODULES>> \o name)
  ELSE IF dir = <<>> THEN NoPath
  ELSE NodeResolveFrom(Front(dir), name)

\* C5: for every processed node and every dependency it declares, the edge
\* recorded is the package the Node.js resolution finds from the node's own
\* directory, and the name is recorded as missing only when the resolution
\* finds nothing.
C5_EdgesAreNodeResolution ==
  \A o \in PackageInfos :
    heap[o].processed =>
      \A i \in 1..Len(heap[o].packageJson.deps) :
        LET name == heap[o].packageJson.deps[i]
            want == NodeResolveFrom(heap[o].realPath, name)
            edge == MapGet(heap[o].dependenciesPackages.pairs, name)
        IN IF want = NoPath
           THEN edge = UNDEF
           ELSE edge # UNDEF /\ heap[edge].realPath = want

\* C6: when a root load returns, every PackageInfo of the table has been
\* through the resolution pass, those that entered the table during the
\* pass included.
C6_AllProcessedAfterRootLoad ==
  (IsRootLoad(lastOp) /\ lastOp.thrown = "") =>
    \A o \in TablePackageInfos : heap[o].processed

\* C7: in every step, processed does not go back from true to false, and
\* afterwards dependenciesPackages and devDependenciesPackages have been
\* assigned at most once per node and a node's errors hold at most one
\* dependenciesMissing and at most one devDependenciesMissing entry.
C7_ResolvedAtMostOnce ==
  [][/\ \A o \in 1..Len(heap) : heap[o].processed => heap'[o].processed
     /\ \A o \in 1..Len(heap') :
          /\ heap'[o].nDeps <= 1
          /\ heap'[o].nDevDeps <= 1
          /\ Len(SelectSeq(heap'[o].errors,
                 LAMBDA e : e.type = ERROR_DEPENDENCIES_MISSING)) <= 1
          /\ Len(SelectSeq(heap'[o].errors,
                 LAMBDA e : e.type = ERROR_DEVDEPENDENCIES_MISSING)) <= 1]_vars

\* C8: a node that is not a root has no devDependenciesPackages, was never
\* assigned one, and has no devDependenciesMissing error.
C8_NoDevDependenciesForNonRoot ==
  \A o \in PackageInfos :
    ~heap[o].isRoot =>
      /\ ~heap[o].devDependenciesPackages.defined
      /\ heap[o].nDevDeps = 0
      /\ ErrorsOfType(o, ERROR_DEVDEPENDENCIES_MISSING) = <<>>

\* C8 witness: a node that is not a root and declares devDependencies has
\* been through the resolution pass
C8_Witness ==
  \E o \in PackageInfos :
    /\ ~heap[o].isRoot
    /\ heap[o].processed
    /\ heap[o].packageJson.devDeps # <<>>
    /\ heap[o].dependenciesPackages.pairs # <<>>

\* the number of directories between startPath and the filesystem root
PathDepth(startPath) ==
  IF IsAbsolute(startPath) THEN Len(startPath) ELSE Len(startPath) - 1

\* C9: findPackage for a name installed nowhere ends, returns undefined and
\* throws nothing (the error for a path held by the other kind of object set
\* aside), after at most as many iterations as startPath is deep.
C9_FindPackageEnds ==
  (lastOp.op = "findPackage" /\ InstalledNowhere(lastOp.name)
     /\ lastOp.thrown # "Error") =>
    /\ lastOp.thrown = ""
    /\ lastOp.ret = UNDEF
    /\ lastOp.iterations <= PathDepth(lastOp.dir)

\* C10: the only exception a load raises is the Error for a path that is
\* held by the other kind of object (and the Error of loadProject for a
\* projectRoot next to an ember-cli-build.js); otherwise it returns a node.
C10_LoadNeverThrows ==
  IsLoad(lastOp) =>
    \/ lastOp.thrown = "Error"
    \/ lastOp.thrown = "" /\ lastOp.ret \in PackageInfos


\* the classes of the objects the table holds for a path: under the
\* normalized path, and under the canonical path when there is one
HeldAs(p) ==
  LET real == getRealDirectoryPath(Normalize(p))
      held == {MapGet(entries, Normalize(p))}
                \cup (IF real # NoPath THEN {MapGet(entries, real)} ELSE {})
  IN {heap[o].cls : o \in held \ {UNDEF}}

\* the first directory findPackage reads as a node_modules listing
FirstProbe(startPath) ==
  IF Basename(startPath) = NODE_MODULES THEN startPath
  ELSE Append(startPath, NODE_MODULES)

\* C11: a loadApp or loadAddon whose directory the table holds (under the
\* normalized or the canonical path) as a NodeModulesList throws an Error,
\* and a findPackage whose first node_modules directory the table holds as
\* a PackageInfo throws an Error; both leave the table and every object as
\* they were.
C11_OtherKindThrows ==
  [][(nOps' = nOps + 1) =>
       /\ (lastOp'.op \in {"loadApp", "loadAddon"}
             /\ "NodeModulesList" \in HeldAs(lastOp'.dir))
            => (lastOp'.thrown = "Error" /\ entries' = entries /\ heap' = heap)
       /\ (lastOp'.op = "findPackage"
             /\ lastOp'.dir # ParseRoot(lastOp'.dir)
             /\ HeldAs(FirstProbe(lastOp'.dir)) \cap ClsPackageInfo # {})
            => (lastOp'.thrown = "Error" /\ entries' = entries /\ heap' = heap)]_vars

\* C11 witness: a loadApp has thrown the Error for a directory that is a
\* symbolic link to a directory the table holds as a NodeModulesList
C11_Witness ==
  /\ lastOp.op = "loadApp"
  /\ lastOp.thrown = "Error"
  /\ MapGet(entries, Normalize(lastOp.dir)) = UNDEF
  /\ "NodeModulesList" \in HeldAs(lastOp.dir)


\* the directory exists and holds no package.json file
IsDirWithoutPackageJson(dir) ==
  LET real == getRealDirectoryPath(Normalize(dir)) IN
  /\ real # NoPath
  /\ RealPath(Append(real, PACKAGE_JSON)) \notin fs.files

C13_MissingDirectory ==
  [][(/\ nOps' = nOps + 1
      /\ lastOp'.op = "loadApp"
      /\ ~lastOp'.isRoot
      /\ getRealDirectoryPath(Normalize(lastOp'.dir)) = NoPath)
       => LET norm == Normalize(lastOp'.dir)
              old == MapGet(entries, norm)
          IN /\ lastOp'.thrown = ""
             /\ IF old = UNDEF
                THEN /\ lastOp'.ret = Len(heap) + 1
                     /\ Len(heap') = Len(heap) + 1
                     /\ SubSeq(heap', 1, Len(heap)) = heap
                     /\ entries' = Append(entries,
                                          [key |-> norm, val |-> lastOp'.ret])
                ELSE /\ lastOp'.ret = old
                     /\ heap' = heap
                     /\ entries' = entries
             /\ IsPackageInfo(heap'[lastOp'.ret])
             /\ ~heap'[lastOp'.ret].valid
             /\ heap'[lastOp'.ret].errors
                  = <<ErrorEntry(ERROR_PACKAGE_DIR_MISSING, ErrPath(norm))>>]_vars

\* C13 witness: a loadApp(dir, false) of a path that is no directory, spelled
\* with a '..', has returned a node that was created by an earlier call
C13_Witness ==
  /\ lastOp.op = "loadApp"
  /\ ~lastOp.isRoot
  /\ lastOp.dir # Normalize(lastOp.dir)
  /\ getRealDirectoryPath(Normalize(lastOp.dir)) = NoPath
  /\ lastOp.thrown = ""
  /\ lastOp.ret < Len(heap)
  /\ ErrorsOfType(lastOp.ret, ERROR_PACKAGE_DIR_MISSING) # <<>>


\* the error types doAddDependencies records
DependencyErrors == {ERROR_DEPENDENCIES_MISSING, ERROR_DEVDEPENDENCIES_MISSING}

\* C14: no call changes the valid flag of a node that existed before it,
\* and after every call a node whose errors are all dependenciesMissing or
\* devDependenciesMissing is valid.
C14_MissingDependenciesKeepValid ==
  [][/\ \A o \in 1..Len(heap) : heap'[o].valid = heap[o].valid
     /\ \A o \in 1..Len(heap') :
          (\A i \in 1..Len(heap'[o].errors) :
             heap'[o].errors[i].type \in DependencyErrors)
            => heap'[o].valid]_vars

\* C14 witness: a root load has returned a node that an earlier call
\* created; the node is valid and the pass recorded a dependenciesMissing
\* error on it
C14_Witness ==
  /\ IsRootLoad(lastOp)
  /\ lastOp.thrown = ""
  /\ ~heap[lastOp.ret].isRoot
  /\ heap[lastOp.ret].processed
  /\ heap[lastOp.ret].valid
  /\ ErrorsOfType(lastOp.ret, ERROR_DEPENDENCIES_MISSING) # <<>>


\* the object behind a reference to a list
ListObject(list) == IF list = NULLINSTANCE THEN theNullInstance ELSE heap[list]

\* the values the Map of the object holds under the name
Stored(obj, entryName) ==
  {obj.entries[i].val :
     i \in {j \in 1..Len(obj.entries) : obj.entries[j].key = entryName}}

\* every entry of the object was entered with addEntry
EnteredWithAddEntry(obj) == obj.hasEntries = (obj.entries # <<>>)

\* what findPackage is to return for the name: the entry stored under an
\* unscoped name, the entry of the nested listing for '@scope/pkg'
IsEntryFor(ret, obj, packageName) ==
  IF Len(packageName) = 1
  THEN IF Stored(obj, packageName[1]) = {} THEN ret = UNDEF
       ELSE ret \in Stored(obj, packageName[1])
  ELSE LET scopes == {o \in Stored(obj, packageName[1]) :
                        IsNodeModulesList(heap[o])}
       IN IF \E o \in scopes : Stored(heap[o], packageName[2]) # {}
          THEN \E o \in scopes : ret \in Stored(heap[o], packageName[2])
          ELSE ret = UNDEF

\* C15: on a list (and nested lists) filled with addEntry, findPackage
\* throws nothing and returns, for an unscoped name, the entry stored under
\* the name or undefined, and for '@scope/pkg' the entry 'pkg' of the
\* NodeModulesList stored under '@scope', undefined when '@scope' is absent
\* or no NodeModulesList or holds no 'pkg'; on a list without entries it
\* returns undefined.
C15_ListFindPackage ==
  \A list \in Lists :
    \A packageName \in {n \in PackageNames :
                           Len(n) = IF StartsWithAt(n[1]) THEN 2 ELSE 1} :
      LET obj == ListObject(list)
          r == NodeModulesList_findPackage(Cache, list, packageName)
      IN (/\ EnteredWithAddEntry(obj)
          /\ \A o \in Stored(obj, packageName[1]) :
               EnteredWithAddEntry(heap[o]))
         => /\ r.thrown = ""
            /\ IsEntryFor(r.ret, obj, packageName)
            /\ obj.entries = <<>> => r.ret = UNDEF

\* C15 witness: findPackage('@s/a') has returned the entry 'a' of the list
\* entered under '@s'
C15_Witness ==
  /\ lastOp.op = "NodeModulesList.findPackage"
  /\ lastOp.name = <<"@s", "a">>
  /\ lastOp.ret # UNDEF
  /\ lastOp.ret \notin Stored(ListObject(lastOp.list), "@s")


\* C16: in every state the cache operations reach, the null instance is as
\* it was made (no entries, hasEntries false, no errors) and the table does
\* not hold it.
C16_NullInstanceUntouched ==
  /\ theNullInstance = nullInstance
  /\ theNullInstance.entries = <<>>
  /\ ~theNullInstance.hasEntries
  /\ theNullInstance.errors = <<>>
  /\ NULLINSTANCE \notin MapVals(entries)

\* C16 witness: two packages have the null instance as their nodeModules,
\* and the resolution pass has looked a dependency of one of them up in it
C16_Witness ==
  \E o1, o2 \in PackageInfos :
    /\ o1 # o2
    /\ heap[o1].nodeModules = NULLINSTANCE
    /\ heap[o2].nodeModules = NULLINSTANCE
    /\ heap[o1].processed
    /\ heap[o1].packageJson.deps # <<>>


\* C17: whatever is tried on the null instance (addEntry, addError,
\* entries.set on its Map, push on its errors array), its entries and its
\* errors stay empty and hasEntries stays false.
C17_NullInstanceRejectsMutation ==
  /\ theNullInstance.entries = <<>>
  /\ theNullInstance.errors = <<>>
  /\ ~theNullInstance.hasEntries


\* the directory holds an addon: a package.json that classifies as an addon
\* or an engine, and the entry point file it names
IsAddonDirectory(dir) ==
  LET real == getRealDirectoryPath(dir)
      json == readJsonSync(Append(real, PACKAGE_JSON))
  IN /\ real # NoPath
     /\ json.kind = "object"
     /\ isEmberAddonPackageJson(json.desc)
     /\ Append(real, MainFile(json.desc)) \in fs.files

\* the package.json of the directory declares in-repo addon paths, each an
\* addon directory
DeclaresInRepoAddons(dir) ==
  LET real == getRealDirectoryPath(Normalize(dir))
      json == readJsonSync(Append(real, PACKAGE_JSON))
  IN /\ real # NoPath
     /\ json.kind = "object"
     /\ json.desc.hasPaths
     /\ json.desc.paths # <<>>
     /\ \A i \in 1..Len(json.desc.paths) :
          IsAddonDirectory(Join(real, json.desc.paths[i]))

\* C18: a loadApp or loadProject of a directory whose package.json declares
\* in-repo addon paths, each an addon directory with its entry point file,
\* returns (the Error for a path held by the other kind of object set
\* aside) a node whose inRepoAddons holds, in the declared order, one valid
\* node per path: the table entry for the root's canonical path joined with
\* the declared path.
C18_InRepoAddonsAsDeclared ==
  (/\ lastOp.op \in {"loadApp", "loadProject"}
   /\ DeclaresInRepoAddons(lastOp.dir)
   /\ lastOp.thrown # "Error")
    => LET real == getRealDirectoryPath(Normalize(lastOp.dir))
           paths == readJsonSync(Append(real, PACKAGE_JSON)).desc.paths
       IN /\ lastOp.thrown = ""
          /\ lastOp.ret = MapGet(entries, real)
          /\ Len(heap[lastOp.ret].inRepoAddons) = Len(paths)
          /\ \A i \in 1..Len(paths) :
               LET node == heap[lastOp.ret].inRepoAddons[i] IN
               /\ node = MapGet(entries, Join(real, paths[i]))
               /\ heap[node].valid


\* the positions of the table whose object has errors
ErrorPositions ==
  {i \in 1..Len(entries) : heap[entries[i].val].errors # <<>>}

\* C19: findErrors returns the table entries whose errors are not empty,
\* PackageInfo and NodeModulesList alike, each once and in the order of the
\* table; hasErrors answers true exactly when there is such an entry; both
\* leave the table and every object as they were.
C19_FindErrorsInTableOrder ==
  [][(nOps' = nOps + 1 /\ lastOp'.op \in {"findErrors", "hasErrors"})
       => /\ entries' = entries /\ heap' = heap
          /\ lastOp'.thrown = ""
          /\ lastOp'.op = "hasErrors" => lastOp'.flag = (ErrorPositions # {})
          /\ lastOp'.op = "findErrors" =>
               LET found == lastOp'.found IN
               /\ Len(found) = Cardinality(ErrorPositions)
               /\ \A k \in 1..Len(found) :
                    \E i \in ErrorPositions :
                      /\ entries[i].val = found[k]
                      /\ Cardinality({j \in ErrorPositions : j < i}) = k - 1
               /\ \A k, l \in 1..Len(found) : found[k] = found[l] => k = l]_vars

\* C19 witness: findErrors has returned a NodeModulesList and, after it, a
\* PackageInfo, while the table holds entries without errors too
C19_Witness ==
  /\ lastOp.op = "findErrors"
  /\ \E k, l \in 1..Len(lastOp.found) :
       /\ k < l
       /\ IsNodeModulesList(heap[lastOp.found[k]])
       /\ IsPackageInfo(heap[lastOp.found[l]])
  /\ Len(lastOp.found) < Len(entries)


\* C20: findDependency(startPath, dependencyName) returns what
\* findPackage(dependencyName, startPath) returns on the same cache, the
\* entry with the name when the upward search from startPath finds one.
C20_FindDependencyIsFindPackage ==
  [][(nOps' = nOps + 1 /\ lastOp'.op = "findDependency")
       => LET Same(r) == r.st.thrown = "" => lastOp'.ret = r.ret
          IN Same(findPackage(Cache, lastOp'.name, lastOp'.dir))]_vars

\* the values of the ERRORS object
ERRORS ==
  {ERROR_PACKAGE_DIR_MISSING, ERROR_PACKAGE_JSON_MISSING,
   ERROR_PACKAGE_JSON_PARSE, ERROR_EMBER_ADDON_MAIN_MISSING,
   ERROR_DEPENDENCIES_MISSING, ERROR_DEVDEPENDENCIES_MISSING,
   ERROR_NODEMODULES_ENTRY_MISSING}

\* C21: in every state, the type of every error entry of every PackageInfo
\* and NodeModulesList (the null instance included) is one of the seven
\* values of ERRORS.
C21_ErrorTypesAreEnumerated ==
  /\ \A o \in Objects : \A i \in 1..Len(heap[o].errors) :
       heap[o].errors[i].type \in ERRORS
  /\ \A i \in 1..Len(theNullInstance.errors) :
       theNullInstance.errors[i].type \in ERRORS

\* typeof object.name is 'string'
HasName(o) == PackageInfo_name(heap[o]) # NoName

\* the candidates of the last addPackages call as they stand at the end of
\* the combined list
Appended ==
  SubSeq(packageList,
         Len(packageList) - Cardinality(SeqToSet(lastOp.found)) + 1,
         Len(packageList))

\* the place of the last occurrence of o in the array
LastIndexOf(array, o) ==
  CHOOSE i \in 1..Len(array) :
    array[i] = o /\ \A j \in (i + 1)..Len(array) : array[j] # o

\* the named objects of the array stand in ascending order of name
NamedAscending(array) ==
  \A i, j \in 1..Len(array) :
    (i < j /\ HasName(array[i]) /\ HasName(array[j]))
      => localeCompare(PackageInfo_name(heap[array[i]]),
                       PackageInfo_name(heap[array[j]])) <= 0

\* the objects without a name stand in the order of their (last) occurrence
\* in the array they come from
NamelessStable(array, from) ==
  \A i, j \in 1..Len(array) :
    (i < j /\ ~HasName(array[i]) /\ ~HasName(array[j]))
      => LastIndexOf(from, array[i]) < LastIndexOf(from, array[j])

C23_SortPutsNamesInOrder ==
  lastOp.op = "sort"
    => /\ Len(packageList) = Len(lastOp.args)
       /\ \A o \in Objects :
            Len(SelectSeq(packageList, LAMBDA x : x = o))
              = Len(SelectSeq(lastOp.args, LAMBDA x : x = o))
       /\ \A i, j \in 1..Len(packageList) :
            (HasName(packageList[i]) /\ ~HasName(packageList[j])) => i < j
       /\ NamedAscending(packageList)
       /\ SelectSeq(packageList, LAMBDA x : ~HasName(x))
            = SelectSeq(lastOp.args, LAMBDA x : ~HasName(x))

\* no object occurs twice in the array
NoDuplicates(array) ==
  \A i, j \in 1..Len(array) : array[i] = array[j] => i = j

C25_LoadAddonMakesAddonRoot ==
  (lastOp.op = "loadAddon" /\ nOps = 1 /\ lastOp.thrown = "")
    => LET \* the directory loadProject(projectRootDir) loads the app from
           AppRootDir(projectRootDirArg) ==
             LET projectPkgJson ==
                   readJsonSync(Append(projectRootDirArg, PACKAGE_JSON))
                 projectRoot == IF projectPkgJson.kind = "object"
                                THEN findEmberProjectRoot(projectPkgJson.desc)
                                ELSE <<>>
             IN IF projectRoot = <<>> THEN projectRootDirArg
                ELSE Resolve(projectRootDirArg, projectRoot)
           addon == MapGet(entries, RealPath(Normalize(lastOp.dir)))
           app == MapGet(entries,
                         RealPath(Normalize(
                           AppRootDir(Resolve(lastOp.dir, lastOp.rel)))))
       IN /\ lastOp.ret = addon /\ addon # UNDEF
          /\ rootPackage = addon
          /\ heap[addon].isRoot
          /\ app # UNDEF /\ app # addon
          /\ ~heap[app].isRoot
          /\ ~heap[app].devDependenciesPackages.defined
          /\ heap[app].nDevDeps = 0
          /\ heap[addon].processed /\ heap[app].processed
          /\ heap[addon].nDeps = 1 /\ heap[addon].nDevDeps = 1
          /\ heap[app].nDeps = 1

\* loadAddon of the in-repo addon of the workspace app returned: the app
\* declares devDependencies and holds its resolved dependencies only
C25_Witness ==
  /\ lastOp.op = "loadAddon" /\ nOps = 1 /\ lastOp.thrown = ""
  /\ lastOp.dir = <<"ws", "app", "lib", "addon1">>
  /\ LET app == MapGet(entries, <<"ws", "app">>) IN
     /\ app # UNDEF
     /\ heap[app].packageJson.devDeps # <<>>
     /\ heap[app].dependenciesPackages.defined
     /\ ~heap[app].devDependenciesPackages.defined
  /\ rootPackage = lastOp.ret

C27_LoadAppTerminates ==
  lastOp.op = "loadApp" => lastOp.thrown # "RangeError"

\* C28: in every step, each path of the table keeps the object it is mapped
\* to, and afterwards no two objects built by the cache have the same
\* realPath: one object per canonical path, never replaced.
C28_OneObjectPerPath ==
  [][/\ \A i \in 1..Len(entries) :
          MapGet(entries', entries[i].key) = entries[i].val
     /\ \A o1, o2 \in 1..Len(heap') :
          heap'[o1].realPath = heap'[o2].realPath => o1 = o2]_vars

\* C29: (1) in every state, for a node that holds its resolved dependencies
\* and a declared name its own node_modules listing has a package for, the
\* edge under that name is the listing's package; (2) a loadApp(dir, true)
\* that returns after a pass in which every name to resolve was in the own
\* listing of the node declaring it leaves the table as reading dir left
\* it: the pass entered nothing.
C29_OwnListingFirst ==
  [][LET Own(st, o, n) ==
           IF st.heap[o].nodeModules = UNDEF THEN Found(UNDEF)
           ELSE NodeModulesList_findPackage(st, st.heap[o].nodeModules, n)
         InOwn(st, o, n) ==
           Own(st, o, n).thrown = "" /\ Own(st, o, n).ret # UNDEF
         Declared(st, o) ==
           SeqToSet(st.heap[o].packageJson.deps)
             \cup (IF st.heap[o].isRoot
                   THEN SeqToSet(st.heap[o].packageJson.devDeps) ELSE {})
         AllOwn(st) ==
           \A i \in 1..Len(st.entries) :
             LET o == st.entries[i].val IN
             (IsPackageInfo(st.heap[o]) /\ ~st.heap[o].processed)
               => \A n \in Declared(st, o) : InOwn(st, o, n)
         Frame(r) ==
           (r.st.thrown = "" /\ AllOwn(r.st)) => entries' = r.st.entries
     IN /\ \A o \in 1..Len(heap') :
             \A n \in SeqToSet(heap'[o].packageJson.deps) :
               (IsPackageInfo(heap'[o])
                  /\ heap'[o].dependenciesPackages.defined
                  /\ InOwn(Cache', o, n))
                 => MapGet(heap'[o].dependenciesPackages.pairs, n)
                      = Own(Cache', o, n).ret
        /\ (nOps' = nOps + 1 /\ lastOp'.op = "loadApp" /\ lastOp'.isRoot
              /\ lastOp'.thrown = "")
             => Frame(readPackage(Cache, lastOp'.dir, TRUE, 1))]_vars

\* the project was loaded as the root and its dependency "a" is the package of
\* its own node_modules; the node_modules above, which holds another "a",
\* was not read
C29_Witness ==
  /\ fs = Shadowed
  /\ lastOp.op = "loadApp" /\ lastOp.isRoot /\ lastOp.thrown = "" /\ nOps = 1
  /\ MapGet(heap[lastOp.ret].dependenciesPackages.pairs, <<"a">>)
       = MapGet(entries, <<"ws", "app", "node_modules", "a">>)
  /\ MapGet(entries, <<"ws", "node_modules">>) = UNDEF
  /\ MapGet(entries, <<"ws", "node_modules", "a">>) = UNDEF
  /\ Len(entries) = 3

RECURSIVE CurrPath(_, _)
CurrPath(startPath, k) ==
  IF k = 1 THEN startPath ELSE Dirname(CurrPath(startPath, k - 1))

\* the listing path probed for the k-th directory
ProbePath(startPath, k) ==
  LET currPath == CurrPath(startPath, k)
  IN IF Basename(currPath) = NODE_MODULES THEN currPath
     ELSE Append(currPath, NODE_MODULES)

\* the listing the table of st holds for the k-th probe, if any
ProbeListing(st, startPath, k) ==
  LET real == getRealDirectoryPath(Normalize(ProbePath(startPath, k)))
      l == IF real = NoPath THEN UNDEF ELSE MapGet(st.entries, real)
  IN IF l # UNDEF /\ IsNodeModulesList(st.heap[l]) THEN l ELSE UNDEF

\* what the listing of the k-th probe holds under packageName
ProbeMatch(st, packageName, startPath, k) ==
  IF ProbeListing(st, startPath, k) = UNDEF THEN UNDEF
  ELSE NodeModulesList_findPackage(st, ProbeListing(st, startPath, k),
                                   packageName).ret

\* the probes before the root is reached: every k for a relative startPath
ProbeCount(startPath) ==
  Cardinality({k \in 1..(Len(startPath) + 1) :
                 CurrPath(startPath, k) # ParseRoot(startPath)})

\* the first probe whose listing holds packageName, 0 if there is none
FirstMatch(st, packageName, startPath) ==
  LET hits == {k \in 1..ProbeCount(startPath) :
                 ProbeMatch(st, packageName, startPath, k) # UNDEF}
  IN IF hits = {} THEN 0 ELSE CHOOSE k \in hits : \A j \in hits : k <= j

\* a findPackage call followed the probe order: it returned the match of the
\* first probe that has one, after that many passes, or undefined after one
\* pass for each directory above the root (a relative startPath has no root
\* to reach: without a match the loop does not end); every probed directory
\* that exists has its listing in the table
FollowsProbeOrder(st, call) ==
  LET first == FirstMatch(st, call.name, call.dir)
  IN /\ first # 0 => /\ call.thrown = ""
                     /\ call.ret = ProbeMatch(st, call.name, call.dir, first)
                     /\ call.iterations = first
     /\ (first = 0 /\ IsAbsolute(call.dir)) =>
          /\ call.thrown = ""
          /\ call.ret = UNDEF
          /\ call.iterations = ProbeCount(call.dir)
     /\ (first = 0 /\ ~IsAbsolute(call.dir)) => call.thrown = "diverges"
     /\ \A k \in 1..call.iterations :
          getRealDirectoryPath(Normalize(ProbePath(call.dir, k))) # NoPath
            => ProbeListing(st, call.dir, k) # UNDEF

\* C32: every findPackage call follows the probe order, and none of its
\* probes is the node_modules directory directly under the root.
C32_FindPackageProbeOrder ==
  [][(lastOp'.op = "findPackage" /\ nOps' = nOps + 1) =>
       /\ FollowsProbeOrder(Cache', lastOp')
       /\ \A k \in 1..lastOp'.iterations :
            Normalize(ProbePath(lastOp'.dir, k)) # <<NODE_MODULES>>]_vars

\* C33: after every step, (1) a table node that is no Ember addon, engine or
\* app has the null instance as its nodeModules, and a node whose nodeModules
\* is a listing of its own is an addon, engine or app; (2) a load that
\* returns such a node (plain, plain Ember, or made with a setup error) has
\* not entered the node's own node_modules directory into the table.
C33_OnlyAddonsAndAppsReadNodeModules ==
  [][LET ReadsOwn(o) == IsEmberAddonPackageInfo(o) \/ IsEmberAppPackageInfo(o)
         Own(o) == getRealDirectoryPath(o.realPath \o <<NODE_MODULES>>)
     IN /\ \A i \in 1..Len(entries') :
             LET o == heap'[entries'[i].val]
             IN IsPackageInfo(o) =>
                  IF ReadsOwn(o) THEN o.nodeModules # NULLINSTANCE
                  ELSE o.nodeModules = NULLINSTANCE
        /\ (/\ nOps' = nOps + 1
            /\ lastOp'.op \in {"loadApp", "loadProject", "loadAddon"}
            /\ lastOp'.thrown = "" /\ lastOp'.ret # UNDEF) =>
             LET o == heap'[lastOp'.ret]
             IN (~ReadsOwn(o) /\ Own(o) # NoPath
                   /\ MapGet(entries, Own(o)) = UNDEF)
                  => MapGet(entries', Own(o)) = UNDEF]_vars

\* C34: a loadApp(dir, false) that returns leaves rootPackage as it was;
\* every PackageInfo it created is unprocessed with dependenciesPackages and
\* devDependenciesPackages undefined; and no node, old or new, has more
\* dependenciesMissing or devDependenciesMissing errors than before.
C34_NonRootLoadDoesNotResolve ==
  [][(/\ nOps' = nOps + 1 /\ lastOp'.op = "loadApp" /\ ~lastOp'.isRoot
      /\ lastOp'.thrown = "") =>
       LET Missing(h, o) ==
             IF o > Len(h) THEN 0
             ELSE Len(SelectSeq(h[o].errors,
                                LAMBDA e : e.type \in
                                  {ERROR_DEPENDENCIES_MISSING,
                                   ERROR_DEVDEPENDENCIES_MISSING}))
       IN /\ rootPackage' = rootPackage
          /\ \A o \in (Len(heap) + 1)..Len(heap') :
               IsPackageInfo(heap'[o]) =>
                 /\ ~heap'[o].processed
                 /\ ~heap'[o].dependenciesPackages.defined
                 /\ ~heap'[o].devDependenciesPackages.defined
          /\ \A o \in 1..Len(heap') : Missing(heap', o) = Missing(heap, o)]_vars

\* a loadApp(dir, false) on a new cache returned a node that declares
\* dependencies and created more nodes besides; a root is still not set
C34_Witness ==
  /\ lastOp.op = "loadApp" /\ ~lastOp.isRoot /\ lastOp.thrown = "" /\ nOps = 1
  /\ heap[lastOp.ret].packageJson.deps # <<>>
  /\ ~heap[lastOp.ret].processed
  /\ Len(entries) > 2
  /\ rootPackage = UNDEF

\* For every listing object made by a step that threw nothing, and every
\* '@'-named child n of its directory that is no directory (and, unless
\* filesToo, no regular file either): the listing
\* has exactly one modulesEntryMissing error whose data is n and no entry
\* under n; every other child the filter keeps that is no regular file has
\* its entry; and the listing is in the table under its path.
UnreadableScopesRecorded(filesToo, h, t, made) ==
  \A l \in made :
    IsNodeModulesList(h[l]) =>
      \A n \in {c \in SeqToSet(readdirSync(h[l].realPath)) :
                  /\ StartsWithAt(c)
                  /\ getRealDirectoryPath(Append(h[l].realPath, c)) = NoPath
                  /\ filesToo
                       \/ getRealFilePath(Append(h[l].realPath, c)) = NoPath} :
        /\ Len(SelectSeq(h[l].errors,
                         LAMBDA e : /\ e.type = ERROR_NODEMODULES_ENTRY_MISSING
                                    /\ e.data = ErrNames(<<<<n>>>>))) = 1
        /\ MapGet(h[l].entries, n) = UNDEF
        /\ \A c \in SeqToSet(readdirSync(h[l].realPath)) \ {n} :
             (/\ KeepFileName(h[l].realPath, c)
              /\ getRealFilePath(Append(h[l].realPath, c)) = NoPath
              /\ getRealDirectoryPath(Append(h[l].realPath, c)) # NoPath)
               => MapGet(h[l].entries, c) # UNDEF
        /\ MapGet(t, h[l].realPath) = l

C36_LedgerIsAppendOnly ==
  [][LET StartsWith(s, pre) ==
           Len(pre) <= Len(s) /\ SubSeq(s, 1, Len(pre)) = pre
         Constructed(o) ==
           PackageInfoFactory_create(o.packageJson, o.realPath, o.isRoot)
         \* r: what #readPackage returned to loadApp
         AfterRead(r) ==
           \A o \in 1..Len(r.st.heap) :
             StartsWith(heap'[o].errors, r.st.heap[o].errors)
     IN /\ Len(heap) <= Len(heap')
        /\ \A o \in 1..Len(heap) : StartsWith(heap'[o].errors, heap[o].errors)
        /\ \A o \in (Len(heap) + 1)..Len(heap') :
             IsPackageInfo(heap'[o]) =>
               StartsWith(heap'[o].errors, Constructed(heap'[o]).errors)
        /\ (nOps' = nOps + 1 /\ lastOp'.op = "loadApp" /\ lastOp'.thrown = "")
             => AfterRead(readPackage(Cache, lastOp'.dir, lastOp'.isRoot, 1))]_vars

\* a node in the table got an error while it was read and then, from the
\* resolution pass, an error about missing dependencies after it
C36_Witness ==
  \E i \in 1..Len(entries) :
    LET errors == heap[entries[i].val].errors
    IN /\ Len(errors) >= 2
       /\ errors[1].type = ERROR_PATHS_ENTRY_NOT_ADDON
       /\ errors[Len(errors)].type \in {ERROR_DEPENDENCIES_MISSING,
                                        ERROR_DEVDEPENDENCIES_MISSING}

\* C37: after every step, a PackageInfo with valid = false has errors, and
\* one whose errors are all dependenciesMissing or devDependenciesMissing
\* has valid = true; and an object that had valid = false before the step
\* has it after.
C37_ValidFollowsLedger ==
  [][/\ \A o \in 1..Len(heap') :
          IsPackageInfo(heap'[o]) =>
            /\ ~heap'[o].valid => heap'[o].errors # <<>>
            /\ (\A j \in 1..Len(heap'[o].errors) :
                  heap'[o].errors[j].type \in {ERROR_DEPENDENCIES_MISSING,
                                               ERROR_DEVDEPENDENCIES_MISSING})
                 => heap'[o].valid
     /\ \A o \in 1..Len(heap) : ~heap[o].valid => ~heap'[o].valid]_vars

\* the table holds an addon without its entry point file, not valid, and a
\* root whose only error is about missing devDependencies, valid; both were
\* there before the last call
C37_Witness ==
  /\ nOps >= 2
  /\ \E i \in 1..Len(entries) :
       LET o == heap[entries[i].val]
       IN /\ ~o.valid /\ Len(o.errors) = 1
          /\ o.errors[1].type = ERROR_EMBER_ADDON_MAIN_MISSING
  /\ \E i \in 1..Len(entries) :
       LET o == heap[entries[i].val]
       IN /\ o.valid /\ o.processed /\ Len(o.errors) = 1
          /\ o.errors[1].type = ERROR_DEVDEPENDENCIES_MISSING

\* C38: in every step no existing object changes its isRoot; and after every
\* step, when rootPackage is set it is a PackageInfo that the table holds
\* and that has isRoot = true.
C38_RootPackageIsRoot ==
  [][/\ \A o \in 1..Len(heap) : heap'[o].isRoot = heap[o].isRoot
     /\ rootPackage' # UNDEF =>
          /\ IsPackageInfo(heap'[rootPackage'])
          /\ rootPackage' \in MapVals(entries')
          /\ heap'[rootPackage'].isRoot]_vars

====
